---- MODULE Spec2Model ----
(***************************************************************************)
(* Model of the language-server discovery subsystem of antigravity-panel:  *)
(* the platform strategies (process-list and port-list parsers), the WSL   *)
(* helpers, AmbientDiscovery and the Primary Finder (ProcessFinder.detect).*)
(*                                                                         *)
(* Text is modelled as a sequence of chunks; the text is the concatenation *)
(* of its chunks.  A chunk is a maximal piece on which every character     *)
(* class used by the regular expressions of the code is constant (a marker *)
(* literal, a run of digits, a run of token characters, one separator, one *)
(* quote), so that a regular expression of the code can only start or stop *)
(* matching at a chunk boundary.                                           *)
(***************************************************************************)
EXTENDS Integers, Sequences, FiniteSets, TLC

VARIABLES
  x_in,      \* extraction: the command line under test, as its argument shapes
  x_res,     \* extraction: result of each extraction path, once applied
  platform,  \* process.platform of the discovery call
  procVersion, \* content of /proc/version (<<>> when unreadable is modelled by procReadable)
  procReadable,
  resolvConf, \* content of /etc/resolv.conf, as lines of chunks
  resolvReadable,
  call,      \* which discovery call is running: "none", "ambient", "primary"
  pc,        \* position of the running call
  attempts,  \* DiscoveryConfig.attempts of the Primary Finder call
  attempt,   \* current attempt of the Primary Finder call (1-based)
  availablePortCommand, \* UnixStrategy.availablePortCommand ("none" for null)
  candidates, \* candidates of the current enumeration
  ci,        \* index of the candidate being processed
  ports,     \* ports resolved for the current candidate
  pi,        \* index of the port being probed
  result,    \* <<>> (null) or <<endpoint>>
  escaped,   \* an exception reached the caller
  enums,     \* number of candidates each enumeration of the call found, in order
  installed, \* the port tools `which` finds on the machine at this moment
  portCommandChecked, \* UnixStrategy.portCommandChecked
  dcall,     \* the calls of detectAvailablePortCommand: position and loop index
  whichLog,  \* the existence probes issued by the instance, in order
  lastRun,   \* <<>> or the last port listing: command, tools at that moment, output
  world,     \* <<>>, or what the environment has answered so far when it is held fixed
  first,     \* <<>>, or the result of the first of two calls
  baseDelay, \* DiscoveryConfig.baseDelay of the Primary Finder call, in delay units
  timer,     \* time left of the wait in progress
  waited,    \* the delays the Primary Finder call has waited, in order
  log        \* external effects of the call since its last enumeration began, in order

vars == <<x_in, x_res, platform, procVersion, procReadable, resolvConf,
          resolvReadable, call, pc, attempts, attempt, availablePortCommand,
          candidates, ci, ports, pi, result, escaped, enums,
          installed, portCommandChecked, dcall, whichLog, lastRun, world, first,
          baseDelay, timer, waited, log>>

xvars == <<x_in, x_res>>
tvars == <<installed, portCommandChecked, dcall, whichLog, lastRun>>
bvars == <<baseDelay, timer, waited>>
dvars == <<platform, procVersion, procReadable, resolvConf, resolvReadable,
           call, pc, attempts, attempt, availablePortCommand, candidates, ci,
           ports, pi, result, escaped, enums, log, tvars, world, first, bvars>>

----------------------------------------------------------------------------
(* Chunks and character classes *)

PORT_MARK == "--extension_server_port"
TOKEN_MARK == "--csrf_token"
WS_MARK == "--workspace_id"
APPDIR_MARK == "--app_data_dir"

\* \s
WsChunks == {" ", "\t", "\n"}
\* ["']
QuoteChunks == {"\"", "'"}
\* chunks made of decimal digits only
DigitChunks ==
  {"0", "1", "2", "100", "200", "300", "400", "1000", "2001", "45000", "45001", "70000"}

DigitValue(c) ==
  CASE c = "0" -> 0 [] c = "1" -> 1 [] c = "2" -> 2
    [] c = "100" -> 100 [] c = "200" -> 200 [] c = "300" -> 300
    [] c = "400" -> 400 [] c = "1000" -> 1000 [] c = "2001" -> 2001 [] c = "45000" -> 45000 [] c = "45001" -> 45001
    [] c = "70000" -> 70000

\* product name, in the letter cases the inputs use
ProductChunks == {"antigravity", "Antigravity", "ANTIGRAVITY"}

\* chunks all of whose characters are in [a-zA-Z0-9\-_.]
TokenChunks ==
  DigitChunks \cup ProductChunks \cup
  {"abc123", "tok-2_x.y", "otherapp", "ws1",
   PORT_MARK, TOKEN_MARK, WS_MARK, APPDIR_MARK}

RECURSIVE Pow10(_)
Pow10(n) == IF n = 0 THEN 1 ELSE 10 * Pow10(n - 1)

\* index of the first chunk at or after i that is not in class S (Len(s)+1 if none)
RECURSIVE SkipClass(_, _, _)
SkipClass(s, i, S) ==
  IF i <= Len(s) /\ s[i] \in S THEN SkipClass(s, i + 1, S) ELSE i

\* concatenation of chunks s[i..j-1]
RECURSIVE Concat(_, _, _)
Concat(s, i, j) == IF i >= j THEN "" ELSE s[i] \o Concat(s, i + 1, j)

\* parseInt(text of the digit chunks s[i..j-1], 10)
RECURSIVE ParseIntRun(_, _, _, _)
ParseIntRun(s, i, j, acc) ==
  IF i >= j THEN acc
  ELSE ParseIntRun(s, i + 1, j, acc * Pow10(Len(s[i])) + DigitValue(s[i]))

\* String.prototype.trim: drop leading and trailing whitespace
RECURSIVE TrimRight(_)
TrimRight(s) ==
  IF Len(s) > 0 /\ s[Len(s)] \in WsChunks THEN TrimRight(SubSeq(s, 1, Len(s) - 1)) ELSE s

Trim(s) ==
  LET t == TrimRight(s)
      k == SkipClass(t, 1, WsChunks)
  IN SubSeq(t, k, Len(t))

\* the literals, among those the code searches for, that occur inside chunk c
Needles(c) ==
  CASE c = "ParentProcessId" -> {"ParentProcessId", "ProcessId"}
    [] c = APPDIR_MARK -> {APPDIR_MARK, "app_data_dir"}
    [] c = TOKEN_MARK -> {TOKEN_MARK, "csrf_token"}
    [] c = "/opt/ls/language_server_linux_x64" -> {c, "language_server"}
    [] OTHER -> {c}

\* the literals the code searches for that occur in c.toLowerCase()
LowerNeedles(c) ==
  CASE c \in {"Microsoft", "microsoft", "MICROSOFT"} -> {"microsoft"}
    [] c \in {"WSL", "wsl", "Wsl"} -> {"wsl"}
    [] OTHER -> {}

\* String.prototype.includes(needle)
Includes(s, needle) == \E i \in 1..Len(s) : needle \in Needles(s[i])

Min(S) == CHOOSE m \in S : \A n \in S : m <= n

\* an optional value: <<>> is undefined/null, <<v>> is v
None == <<>>
Some(v) == <<v>>

----------------------------------------------------------------------------
(* Signature extraction: the regular expressions shared by the parsers *)

\* [=\s]
SepChunks == {"="} \cup WsChunks

\* /--extension_server_port[=\s]+(\d+)/ matches with the marker at chunk i
PortMatchAt(s, i) ==
  /\ s[i] = PORT_MARK
  /\ LET j == SkipClass(s, i + 1, SepChunks)
     IN j > i + 1 /\ j <= Len(s) /\ s[j] \in DigitChunks

\* cmd.match(/--extension_server_port[=\s]+(\d+)/): parseInt of group 1 of the
\* leftmost match, None when there is no match
PortMatch(s) ==
  LET hits == {i \in 1..Len(s) : PortMatchAt(s, i)}
  IN IF hits = {} THEN None
     ELSE LET i == Min(hits)
              j == SkipClass(s, i + 1, SepChunks)
              k == SkipClass(s, j, DigitChunks)
          IN Some(ParseIntRun(s, j, k, 0))

\* first chunk of group 1 of /<mark>[=\s]+(?:["']?)([a-zA-Z0-9\-_.]+)(?:["']?)/
\* with the marker at chunk i; 0 when the expression does not match there
ValueStart(s, i, mark) ==
  IF s[i] # mark THEN 0
  ELSE LET j == SkipClass(s, i + 1, SepChunks)
           k == IF j <= Len(s) /\ s[j] \in QuoteChunks THEN j + 1 ELSE j
       IN IF j > i + 1 /\ k <= Len(s) /\ s[k] \in TokenChunks THEN k ELSE 0

\* group 1 of the leftmost match of the expression above, None when no match
MarkedValue(s, mark) ==
  LET hits == {i \in 1..Len(s) : ValueStart(s, i, mark) # 0}
  IN IF hits = {} THEN None
     ELSE LET k == ValueStart(s, Min(hits), mark)
          IN Some(Concat(s, k, SkipClass(s, k, TokenChunks)))

\* TokenMatch written with the marker of the expression next to it
TokenMatchWrongMarker(s) == MarkedValue(s, WS_MARK)

\* cmd.match(/--csrf_token[=\s]+(?:["']?)([a-zA-Z0-9\-_.]+)(?:["']?)/)
TokenMatch(s) == MarkedValue(s, TOKEN_MARK)

\* cmd.match(/--workspace_id[=\s]+(?:["']?)([a-zA-Z0-9\-_.]+)(?:["']?)/)
WsMatch(s) == MarkedValue(s, WS_MARK)

\* /app_data_dir\s+["']?antigravity/i matches with app_data_dir inside chunk i
AppDirRegexAt(s, i) ==
  /\ "app_data_dir" \in Needles(s[i])
  /\ LET j == SkipClass(s, i + 1, WsChunks)
         k == IF j <= Len(s) /\ s[j] \in QuoteChunks THEN j + 1 ELSE j
     IN j > i + 1 /\ k <= Len(s) /\ s[k] \in ProductChunks

\* StrictCheck left out
StrictCheckDropped(s) == TRUE

\* STRICT CHECK: cmd.includes("--app_data_dir") &&
\* /app_data_dir\s+["']?antigravity/i.test(cmd)
StrictCheck(s) ==
  /\ Includes(s, APPDIR_MARK)
  /\ \E i \in 1..Len(s) : AppDirRegexAt(s, i)

\* a ProcessInfo record
Candidate(pid, ppid, portMatch, tokenMatch, wsMatch) ==
  [pid |-> pid, ppid |-> ppid,
   extensionPort |-> IF portMatch = None THEN 0 ELSE portMatch[1],
   csrfToken |-> tokenMatch[1],
   workspaceId |-> wsMatch]

\* tokenMatch?.[1] is truthy
Truthy(m) == m # None /\ m[1] # ""

\* results.length > 0 ? results : null
ListOrNull(list) == [null |-> list = <<>>, items |-> list]
NullResult == [null |-> TRUE, items |-> <<>>]

----------------------------------------------------------------------------
(* UnixStrategy.parseProcessInfo *)

\* line.trim().match(/^(\d+)\s+(\d+)\s+(.+)$/) on a trimmed line t
UnixLineMatch(t) ==
  LET i1 == SkipClass(t, 1, DigitChunks)
      i2 == SkipClass(t, i1, WsChunks)
      i3 == SkipClass(t, i2, DigitChunks)
      i4 == SkipClass(t, i3, WsChunks)
  IN IF i1 > 1 /\ i2 > i1 /\ i3 > i2 /\ i4 > i3 /\ i4 <= Len(t)
     THEN Some([pid |-> ParseIntRun(t, 1, i1, 0),
                ppid |-> ParseIntRun(t, i2, i3, 0),
                cmd |-> SubSeq(t, i4, Len(t))])
     ELSE None

\* body of the loop over lines: the record pushed for one line, if any
UnixParseLine(line) ==
  LET t == Trim(line)
      m == UnixLineMatch(t)
  IN IF t = <<>> \/ m = None THEN None
     ELSE LET cmd == m[1].cmd
              portMatch == PortMatch(cmd)
              tokenMatch == TokenMatch(cmd)
              wsMatch == WsMatch(cmd)
          IN IF /\ Includes(cmd, PORT_MARK)
                /\ Truthy(tokenMatch)
                /\ StrictCheck(cmd)
             THEN Some(Candidate(m[1].pid, m[1].ppid, portMatch, tokenMatch, wsMatch))
             ELSE None

\* concatenation of a sequence of sequences
RECURSIVE Flatten(_)
Flatten(lines) == IF lines = <<>> THEN <<>> ELSE Head(lines) \o Flatten(Tail(lines))

\* stdout is given as its lines (stdout.trim().split("\n"))
UnixParseProcessInfo(lines) == ListOrNull(Flatten([k \in 1..Len(lines) |-> UnixParseLine(lines[k])]))

----------------------------------------------------------------------------
(* WindowsStrategy.parseProcessInfo / mapProcessItems *)

\* body of the loop of mapProcessItems; an item is
\* [ProcessId, ParentProcessId, CommandLine], CommandLine "" when absent
WinMapItem(item) ==
  LET commandLine == item.CommandLine
      portMatch == PortMatch(commandLine)
      tokenMatch == TokenMatch(commandLine)
      wsMatch == WsMatch(commandLine)
  IN IF /\ item.ProcessId # 0
        /\ Truthy(tokenMatch)
        /\ StrictCheck(commandLine)
     THEN Some(Candidate(item.ProcessId, item.ParentProcessId,
                         portMatch, tokenMatch, wsMatch))
     ELSE None

MapProcessItems(processList) == ListOrNull(Flatten([k \in 1..Len(processList) |-> WinMapItem(processList[k])]))

\* row.match(/,(\d+),(\d+)\s*$/) on a trimmed row
CsvIdsMatch(row) ==
  LET n == Len(row)
  IN IF /\ n >= 4
        /\ row[n] \in DigitChunks /\ row[n - 1] = ","
        /\ row[n - 2] \in DigitChunks /\ row[n - 3] = ","
     THEN Some([ppid |-> DigitValue(row[n - 2]), pid |-> DigitValue(row[n])])
     ELSE None

\* body of the loop over the lines of wmic CSV output
CsvParseLine(line) ==
  LET row == Trim(line)
      idsMatch == CsvIdsMatch(row)
      portMatch == PortMatch(row)
      tokenMatch == TokenMatch(row)
      wsMatch == WsMatch(row)
  IN IF /\ row # <<>>
        /\ ~(Len(row) >= 2 /\ row[1] = "Node" /\ row[2] = ",")
        /\ Includes(row, PORT_MARK)
        /\ idsMatch # None
        /\ Truthy(tokenMatch)
        /\ StrictCheck(row)
     THEN Some(Candidate(idsMatch[1].pid, idsMatch[1].ppid,
                         portMatch, tokenMatch, wsMatch))
     ELSE None

\* Array.isArray(data) ? data : [data]; a payload is [isArray, items], items
\* being the array, or the one object when the payload is an object
AsArray(data) == IF data.isArray THEN data.items ELSE <<data.items>>

\* jsonCandidate = trimmed.substring(first "[" or "{"): "payload" when it is
\* the JSON payload, "broken" when it starts at a bracket of the text printed
\* before the payload (JSON.parse throws on it), "none" when the output has
\* no bracket
JsonCandidate(stdout) ==
  LET text == Flatten(stdout.text)
  IN IF Includes(text, "[") \/ Includes(text, "{") THEN "broken"
     ELSE IF stdout.json # None THEN "payload" ELSE "none"

\* stdout is [text, json]: the lines of text the command printed, followed by
\* the JSON payload if it printed one (json = <<[isArray, items]>>).
WinParseProcessInfo(stdout) ==
  LET text == Flatten(stdout.text)
      jsonCandidate == JsonCandidate(stdout)
  IN IF jsonCandidate = "broken" THEN NullResult          \* JSON.parse throws
     ELSE IF jsonCandidate = "payload" THEN MapProcessItems(AsArray(stdout.json[1]))
     ELSE IF Includes(text, "CommandLine") /\ Includes(text, "ProcessId")
          THEN ListOrNull(Flatten([k \in 1..Len(stdout.text) |-> CsvParseLine(stdout.text[k])]))
     ELSE NullResult

----------------------------------------------------------------------------
(* AmbientDiscovery.parseOutput / extractDetails *)

\* tokenPtr?.[1] is truthy
AmbientTokenOk(tokenPtr) == Truthy(tokenPtr)

ExtractDetails(cmd, pid, ppid) ==
  LET portPtr == PortMatch(cmd)
      tokenPtr == TokenMatch(cmd)
      wsPtr == WsMatch(cmd)
  IN IF /\ Includes(cmd, TOKEN_MARK)
        /\ Includes(cmd, PORT_MARK)
        /\ AmbientTokenOk(tokenPtr)
     THEN Some(Candidate(pid, ppid, portPtr, tokenPtr, wsPtr))
     ELSE None

AmbientUnixRow(row) ==
  LET m == UnixLineMatch(Trim(row))
  IN IF m = None THEN None ELSE ExtractDetails(m[1].cmd, m[1].pid, m[1].ppid)

AmbientWinEntry(entry) ==
  ExtractDetails(entry.CommandLine, entry.ProcessId, entry.ParentProcessId)

\* raw.trim() leaves the payload alone: every line before it is whitespace
BlankLines(text) ==
  \A k \in 1..Len(text) : \A i \in 1..Len(text[k]) : text[k][i] \in WsChunks

\* parseOutput(raw); raw is the lines of a ps listing, or the [text, json]
\* output of the PowerShell command on win32 (text: the lines before the
\* JSON payload)
AmbientParseOutput(plat, raw) ==
  IF plat = "win32"
  THEN IF ~BlankLines(raw.text) \/ raw.json = None THEN <<>>   \* JSON.parse throws, caught
       ELSE LET entries == AsArray(raw.json[1])
            IN Flatten([k \in 1..Len(entries) |-> AmbientWinEntry(entries[k])])
  ELSE Flatten([k \in 1..Len(raw) |-> AmbientUnixRow(raw[k])])

----------------------------------------------------------------------------
(* Port listing: the commands and the parsers of their output.  The output *)
(* of a command is one chunk sequence with "\n" chunks between its lines.  *)

\* (?:TCP|UDP) and (?:TCP|UDP|LISTEN) under the i flag
ProtoChunks == {"TCP", "tcp", "UDP", "udp"}
ProtoOrListenChunks == ProtoChunks \cup {"LISTEN", "listen"}
\* [\d.]+ : digits and dots
IpChunks == {"127.0.0.1", "0.0.0.0", "172.20.0.1", "10.0.0.1"}
NumDotChunks == DigitChunks \cup IpChunks
\* \[[\da-f:]+\]
BracketAddrChunks == {"[::1]", "[::]"}
\* (?:\*|[\d.]+|\[[\da-f:]+\]) and its variant with \[[\da-f:]*\]
AddrChunks == {"*"} \cup NumDotChunks \cup BracketAddrChunks
\* (?:127\.0\.0\.1|0\.0\.0\.0|\[::1?\])
WinLocalAddrChunks == {"127.0.0.1", "0.0.0.0", "[::1]", "[::]"}

At(s, i) == IF i >= 1 /\ i <= Len(s) THEN s[i] ELSE ""

\* String(pid)
ToStr(n) == CHOOSE c \in DigitChunks : DigitValue(c) = n

\* text.split("\n")
RECURSIVE SplitLines(_, _)
SplitLines(s, cur) ==
  IF s = <<>> THEN <<cur>>
  ELSE IF Head(s) = "\n" THEN <<cur>> \o SplitLines(Tail(s), <<>>)
  ELSE SplitLines(Tail(s), Append(cur, Head(s)))

\* t.split(/\s+/), t being line.trim(): the text cut at each run of
\* whitespace; a text with no whitespace, the empty one included, is one
\* field (so "".split(/\s+/) is [""]), and whitespace at either end leaves
\* an empty field there
RECURSIVE Fields(_)
Fields(t) ==
  LET f == CHOOSE k \in 1..(Len(t) + 1) :
             /\ \A m \in 1..(k - 1) : t[m] \notin WsChunks
             /\ (k = Len(t) + 1 \/ t[k] \in WsChunks)
      e == SkipClass(t, f, WsChunks)
  IN IF f > Len(t) THEN <<Concat(t, 1, f)>>
     ELSE <<Concat(t, 1, f)>> \o Fields(SubSeq(t, e, Len(t)))

Contains(seq, v) == \E i \in 1..Len(seq) : seq[i] = v
AddUnique(seq, v) == IF Contains(seq, v) THEN seq ELSE Append(seq, v)

\* the list left in the order of appearance
SortAscNone(seq) == seq

\* ports.sort((a, b) => a - b)
RECURSIVE SortAsc(_)
SortAsc(seq) ==
  IF seq = <<>> THEN <<>>
  ELSE LET m == Min({seq[i] : i \in 1..Len(seq)})
           k == Min({i \in 1..Len(seq) : seq[i] = m})
       IN <<m>> \o SortAsc(SubSeq(seq, 1, k - 1) \o SubSeq(seq, k + 1, Len(seq)))

\* detection_utils.getPortListCommand: the tool whose output the command yields
\* ("chain" is the ss-or-lsof chain)
GetPortListCommand(plat, unixAvailableCmd) ==
  IF plat = "win32" THEN "netstat-ano"
  ELSE IF plat = "darwin" THEN "lsof"
  ELSE IF unixAvailableCmd \in {"lsof", "ss", "netstat"} THEN unixAvailableCmd
  ELSE "chain"

\* end of a match of /(?:TCP|UDP|LISTEN)\s+(?:\*|[\d.]+|\[[\da-f:]+\]):(\d+)/gi
\* starting at chunk i (0 when none); group 1 is the digit run before the end
AmbientUnixPortEnd(s, i) ==
  LET j == SkipClass(s, i + 1, WsChunks)
  IN IF /\ At(s, i) \in ProtoOrListenChunks
        /\ j > i + 1
        /\ At(s, j) \in AddrChunks
        /\ At(s, j + 1) = ":"
        /\ At(s, j + 2) \in DigitChunks
     THEN SkipClass(s, j + 2, DigitChunks) ELSE 0

\* end of a match of
\* /(?:127\.0\.0\.1|0\.0\.0\.0|\[::1?\]):(\d+)\s+\S+\s+LISTENING/gi at chunk i
AmbientWinPortEnd(s, i) ==
  LET d == SkipClass(s, i + 2, DigitChunks)
      w1 == SkipClass(s, d, WsChunks)
      n == CHOOSE k \in w1..(Len(s) + 1) :
             /\ \A m \in w1..(k - 1) : s[m] \notin WsChunks
             /\ (k = Len(s) + 1 \/ s[k] \in WsChunks)
      w2 == SkipClass(s, n, WsChunks)
  IN IF /\ At(s, i) \in WinLocalAddrChunks
        /\ At(s, i + 1) = ":"
        /\ d > i + 2 /\ w1 > d /\ n > w1 /\ w2 > n
        /\ At(s, w2) \in {"LISTENING", "listening"}
     THEN w2 + 1 ELSE 0

\* the digit run that is group 1 of the match of the expression of plat at i
AmbientPortAt(plat, s, i) ==
  IF plat = "win32"
  THEN ParseIntRun(s, i + 2, SkipClass(s, i + 2, DigitChunks), 0)
  ELSE LET j == SkipClass(s, i + 1, WsChunks)
       IN ParseIntRun(s, j + 2, SkipClass(s, j + 2, DigitChunks), 0)

AmbientPortEnd(plat, s, i) ==
  IF plat = "win32" THEN AmbientWinPortEnd(s, i) ELSE AmbientUnixPortEnd(s, i)

\* p > 0 left out of the test below
AmbientKeepPortAny(p) == TRUE

\* the p > 0 of `if (p > 0 && !store.includes(p)) store.push(p)`
AmbientKeepPort(p) == p > 0

\* the while loop of lookupPorts over regex.exec(stdout)
RECURSIVE AmbientScan(_, _, _, _)
AmbientScan(plat, s, i, store) ==
  IF i > Len(s) THEN store
  ELSE LET e == AmbientPortEnd(plat, s, i)
       IN IF e = 0 THEN AmbientScan(plat, s, i + 1, store)
          ELSE LET p == AmbientPortAt(plat, s, i)
               IN AmbientScan(plat, s, e,
                              IF AmbientKeepPort(p) THEN AddUnique(store, p) ELSE store)

\* a store declared outside lookupPorts: what an earlier lookup pushed is
\* still in it
KeptStore(prev) == prev

\* const store: number[] = [] : every lookup begins with a new empty array,
\* whatever the array of the lookup before (prev) holds
NewStore(prev) == <<>>

\* the store after the ports found are pushed in order, those already in it
\* left out: if (p > 0 && !store.includes(p)) store.push(p)
RECURSIVE Pushed(_, _)
Pushed(store, found) ==
  IF found = <<>> THEN store ELSE Pushed(AddUnique(store, Head(found)), Tail(found))

\* lookupPorts without its try/catch: a failed command is thrown on
LookupPortsNoCatch(plat, execOk, stdout) ==
  [thrown |-> ~execOk, ports |-> IF execOk THEN AmbientScan(plat, stdout, 1, <<>>) ELSE <<>>]

\* AmbientDiscovery.lookupPorts: catch { return [] }
LookupPorts(plat, execOk, stdout) ==
  [thrown |-> FALSE, ports |-> IF execOk THEN AmbientScan(plat, stdout, 1, <<>>) ELSE <<>>]

\* WindowsStrategy.parseListeningPorts: the loop over the lines
RECURSIVE WinPortLines(_, _)
WinPortLines(lines, acc) ==
  IF lines = <<>> THEN acc
  ELSE LET trimmed == Trim(Head(lines))
           isNumber == trimmed # <<>> /\ \A k \in 1..Len(trimmed) : trimmed[k] \in DigitChunks
           port == ParseIntRun(trimmed, 1, Len(trimmed) + 1, 0)
       IN WinPortLines(Tail(lines),
                       IF isNumber /\ port > 0 /\ port <= 65535
                       THEN AddUnique(acc, port) ELSE acc)

WinParseListeningPorts(stdout) == SortAsc(WinPortLines(SplitLines(Trim(stdout), <<>>), <<>>))

\* line.match(/(?:TCP|UDP)\s+(?:\*|[\d.]+|\[[\da-f:]+\]):(\d+)\s+\(LISTEN\)/i):
\* the chunk where the leftmost match starts, 0 when none
LsofMatchStart(line) ==
  LET ok(i) ==
        LET j == SkipClass(line, i + 1, WsChunks)
            d == SkipClass(line, j + 2, DigitChunks)
            w == SkipClass(line, d, WsChunks)
        IN /\ line[i] \in ProtoChunks
           /\ j > i + 1
           /\ At(line, j) \in AddrChunks
           /\ At(line, j + 1) = ":"
           /\ d > j + 2 /\ w > d
           /\ At(line, w) \in {"(LISTEN)", "(listen)"}
      hits == {i \in 1..Len(line) : ok(i)}
  IN IF hits = {} THEN 0 ELSE Min(hits)

\* the lsof loop: lines whose second column is the pid
RECURSIVE LsofLines(_, _, _)
LsofLines(lines, pidStr, acc) ==
  IF lines = <<>> THEN acc
  ELSE LET line == Head(lines)
           parts == Fields(Trim(line))
           i == LsofMatchStart(line)
           j == SkipClass(line, i + 1, WsChunks)
       IN LsofLines(Tail(lines), pidStr,
                    IF Len(parts) >= 2 /\ parts[2] = pidStr /\ i # 0
                    THEN AddUnique(acc, ParseIntRun(line, j + 2,
                                                    SkipClass(line, j + 2, DigitChunks), 0))
                    ELSE acc)

\* end of a match of /LISTEN\s+\d+\s+\d+\s+(?:\*|[\d.]+|\[[\da-f:]*\]):(\d+)/gi
\* at chunk i (0 when none)
SsAddrStart(s, i) ==
  LET a == SkipClass(s, i + 1, WsChunks)
      b == SkipClass(s, a, DigitChunks)
      c == SkipClass(s, b, WsChunks)
      d == SkipClass(s, c, DigitChunks)
  IN SkipClass(s, d, WsChunks)

SsMatchEnd(s, i) ==
  LET a == SkipClass(s, i + 1, WsChunks)
      b == SkipClass(s, a, DigitChunks)
      c == SkipClass(s, b, WsChunks)
      d == SkipClass(s, c, DigitChunks)
      e == SkipClass(s, d, WsChunks)
  IN IF /\ At(s, i) \in {"LISTEN", "listen"}
        /\ a > i + 1 /\ b > a /\ c > b /\ d > c /\ e > d
        /\ At(s, e) \in AddrChunks \cup {"[]"}
        /\ At(s, e + 1) = ":"
        /\ At(s, e + 2) \in DigitChunks
     THEN SkipClass(s, e + 2, DigitChunks) ELSE 0

RECURSIVE SsScan(_, _, _)
SsScan(s, i, acc) ==
  IF i > Len(s) THEN acc
  ELSE LET e == SsMatchEnd(s, i)
           p == SsAddrStart(s, i) + 2
       IN IF e = 0 THEN SsScan(s, i + 1, acc)
          ELSE SsScan(s, e, AddUnique(acc, ParseIntRun(s, p, e, 0)))

\* UnixStrategy.parseListeningPorts(stdout, pid) of a strategy for plat
UnixParseListeningPorts(plat, stdout, pid) ==
  LET lines == SplitLines(stdout, <<>>)
      pidStr == ToStr(pid)
  IN IF plat = "darwin" THEN SortAsc(LsofLines(lines, pidStr, <<>>))
     ELSE LET ss == SsScan(stdout, 1, <<>>)
          IN SortAsc(IF ss = <<>> THEN LsofLines(lines, pidStr, <<>>) ELSE ss)

----------------------------------------------------------------------------
(* wsl.ts *)

\* isWsl() without the platform test
IsWslAnyPlatform(plat, readable, version) ==
  /\ readable
  /\ \E i \in 1..Len(version) :
        "microsoft" \in LowerNeedles(version[i]) \/ "wsl" \in LowerNeedles(version[i])

\* isWsl(): false off linux; false when /proc/version cannot be read
IsWsl(plat, readable, version) ==
  /\ plat = "linux"
  /\ readable
  /\ \E i \in 1..Len(version) :
        "microsoft" \in LowerNeedles(version[i]) \/ "wsl" \in LowerNeedles(version[i])

\* \s+([0-9.]+) once \s+ has run over the line break before line k: blank
\* lines and leading whitespace are more of \s+, then group 1 must begin
RECURSIVE AddressAfterBreak(_, _)
AddressAfterBreak(lines, k) ==
  IF k > Len(lines) THEN None
  ELSE LET line == lines[k]
           j == SkipClass(line, 1, WsChunks)
       IN IF j > Len(line) THEN AddressAfterBreak(lines, k + 1)
          ELSE IF line[j] \in NumDotChunks
          THEN Some(Concat(line, j, SkipClass(line, j, NumDotChunks)))
          ELSE None

\* the match of /^nameserver\s+([0-9.]+)/m that begins at the start of line
\* i of the file: group 1, or None.  \s+ matches line breaks too, so when
\* only whitespace follows the keyword on its line the address is looked for
\* on the lines after it
NameserverOf(lines, i) ==
  LET line == lines[i]
      j == SkipClass(line, 2, WsChunks)
  IN IF At(line, 1) # "nameserver" THEN None
     ELSE IF j > Len(line) THEN AddressAfterBreak(lines, i + 1)
     ELSE IF j > 2 /\ line[j] \in NumDotChunks
     THEN Some(Concat(line, j, SkipClass(line, j, NumDotChunks)))
     ELSE None

\* getWslHostIp(): group 1 of the first match in the file, None (null) when
\* the file cannot be read or nothing matches
GetWslHostIp(readable, lines) ==
  LET hits == {i \in 1..Len(lines) : NameserverOf(lines, i) # None}
  IN IF ~readable \/ hits = {} THEN None ELSE NameserverOf(lines, Min(hits))

----------------------------------------------------------------------------
(* Extraction specification: every parser applied to one command line *)

EXE == "/opt/ls/language_server_linux_x64"

\* the shapes of one argument: absent, or marker, separator, optional quotes, value
ArgShapes(vals) ==
  {[present |-> FALSE, sep |-> "=", quote |-> "", val |-> <<>>]} \cup
  [present : {TRUE}, sep : {"=", " "}, quote : {"", "\"", "'"}, val : vals]

PortVals == {<<"45000">>}
TokenVals == {<<"abc123">>}
AppDirVals == {<<"antigravity">>, <<"Antigravity">>,
               <<"/home/u/.", "antigravity">>, <<"otherapp">>}
WsVals == {<<"ws1">>}

\* the orders in which the four arguments follow the executable
ArgOrders == {<<"port", "token", "appdir", "ws">>,
              <<"appdir", "ws", "token", "port">>}

Inputs ==
  [port : ArgShapes(PortVals), token : ArgShapes(TokenVals),
   appdir : ArgShapes(AppDirVals),
   ws : {a \in ArgShapes(WsVals) : a.sep = "=" /\ a.quote = ""},
   order : ArgOrders]

Quoted(q, val) == IF q = "" THEN val ELSE <<q>> \o val \o <<q>>

ArgText(mark, a) ==
  IF a.present THEN <<" ", mark, a.sep>> \o Quoted(a.quote, a.val) ELSE <<>>

MarkOf(name) ==
  CASE name = "port" -> PORT_MARK [] name = "token" -> TOKEN_MARK
    [] name = "appdir" -> APPDIR_MARK [] name = "ws" -> WS_MARK

\* the command line an input stands for
BuildCmd(in) ==
  LET A(k) == ArgText(MarkOf(in.order[k]), in[in.order[k]])
  IN <<EXE>> \o A(1) \o A(2) \o A(3) \o A(4)

\* one line of `ps -A -ww -o pid,ppid,args`
PsLine(pid, ppid, cmd) == <<" ", pid, " ", ppid, " ">> \o cmd

\* wmic /format:csv output: header, then Node,CommandLine,ParentProcessId,ProcessId
CsvHeader == <<"Node", ",", "CommandLine", ",", "ParentProcessId", ",", "ProcessId">>
CsvRow(pid, ppid, cmd) == <<"HOST", ",">> \o cmd \o <<",", ppid, ",", pid>>

JsonArray(items) == Some([isArray |-> TRUE, items |-> items])
JsonObject(item) == Some([isArray |-> FALSE, items |-> item])
WinItem(pid, ppid, cmd) == [ProcessId |-> pid, ParentProcessId |-> ppid, CommandLine |-> cmd]

Paths == {"unix", "winjson", "wincsv", "ambientUnix", "ambientWin"}
StrictPaths == {"unix", "winjson", "wincsv"}

\* the candidates a path extracts from the command line of input in
Extract(path, in) ==
  LET cmd == BuildCmd(in)
  IN CASE path = "unix" ->
            UnixParseProcessInfo(<<PsLine("100", "1", cmd)>>).items
       [] path = "winjson" ->
            WinParseProcessInfo([text |-> <<>>,
                                 json |-> JsonArray(<<WinItem(100, 1, cmd)>>)]).items
       [] path = "wincsv" ->
            WinParseProcessInfo([text |-> <<CsvHeader, CsvRow("100", "1", cmd)>>,
                                 json |-> None]).items
       [] path = "ambientUnix" ->
            AmbientParseOutput("linux", <<PsLine("100", "1", cmd)>>)
       [] path = "ambientWin" ->
            AmbientParseOutput("win32", [text |-> <<>>,
                                         json |-> JsonArray(<<WinItem(100, 1, cmd)>>)])

\* no strategy instance in use
TIdle ==
  /\ installed = {} /\ portCommandChecked = FALSE /\ dcall = <<>>
  /\ whichLog = <<>> /\ lastRun = <<>>

\* the environment is free to answer anew each time; a single call
FreeWorld == world = <<>> /\ first = <<>>

\* no Primary Finder call has been configured
NoBackoff == baseDelay = 0 /\ timer = 0 /\ waited = <<>>

DIdle ==
  /\ platform = "linux" /\ procVersion = <<>> /\ procReadable = FALSE
  /\ resolvConf = <<>> /\ resolvReadable = FALSE
  /\ call = "none" /\ pc = "idle" /\ attempts = 0 /\ attempt = 0
  /\ availablePortCommand = "none"
  /\ candidates = <<>> /\ ci = 0 /\ ports = <<>> /\ pi = 0
  /\ result = <<>> /\ escaped = FALSE /\ enums = <<>> /\ log = <<>>
  /\ TIdle /\ FreeWorld /\ NoBackoff

XInit ==
  /\ x_in \in Inputs
  /\ x_res = [p \in Paths |-> None]
  /\ DIdle

X_Apply(path) ==
  /\ x_res[path] = None
  /\ x_res' = [x_res EXCEPT ![path] = Some(Extract(path, x_in))]
  /\ UNCHANGED <<x_in, dvars>>

X_UnixParse == x_in \in Inputs /\ X_Apply("unix")
X_WinJsonParse == x_in \in Inputs /\ X_Apply("winjson")
X_WinCsvParse == x_in \in Inputs /\ X_Apply("wincsv")
X_AmbientUnix == x_in \in Inputs /\ X_Apply("ambientUnix")
X_AmbientWin == x_in \in Inputs /\ X_Apply("ambientWin")

XNext ==
  \/ X_UnixParse
  \/ X_WinJsonParse
  \/ X_WinCsvParse
  \/ X_AmbientUnix
  \/ X_AmbientWin

SpecExtract == XInit /\ [][XNext]_vars

----------------------------------------------------------------------------
(* Environment of a discovery call: the inputs the external commands, files *)
(* and probes can give                                                      *)

MaxProcs == 2
MaxAttempts == 2

Platforms == {"linux", "darwin", "win32"}

ProcVersions ==
  {<<"Linux version 6.1.0-18-amd64 (gcc 12.2.0)">>,
   <<"Linux version 5.15.90.1-", "microsoft", "-standard-", "WSL", "2">>,
   <<"Linux version 4.4.0-19041-", "Microsoft">>}

ResolvConfs ==
  {<<>>,
   <<<<"# generated by /usr/bin/wsl">>, <<"nameserver", " ", "172.20.0.1">>>>,
   <<<<"nameserver", " ", "127.0.0.1">>, <<"search", " ", "lan">>>>}

ArgEq(v) == [present |-> TRUE, sep |-> "=", quote |-> "", val |-> v]
ArgAbsent == [present |-> FALSE, sep |-> "=", quote |-> "", val |-> <<>>]

\* strict signature, port given on the command line
GoodInput ==
  [port |-> ArgEq(<<"45000">>), token |-> ArgEq(<<"abc123">>),
   appdir |-> [present |-> TRUE, sep |-> " ", quote |-> "", val |-> <<"antigravity">>],
   ws |-> ArgAbsent, order |-> <<"port", "token", "appdir", "ws">>]

WithExe(cmd, exe) == <<exe>> \o Tail(cmd)

\* the command lines of the processes the environment may run
ProcCmds ==
  <<BuildCmd([GoodInput EXCEPT !.port.quote = "\""]),
    BuildCmd(GoodInput),
    WithExe(BuildCmd([GoodInput EXCEPT !.appdir = ArgEq(<<"otherapp">>),
                                       !.port = ArgEq(<<"45001">>),
                                       !.token = ArgEq(<<"tok-2_x.y">>)]),
            "/opt/ls/renamed_srv"),
    BuildCmd([GoodInput EXCEPT !.token = ArgAbsent])>>

\* the elements of a set of numbers in ascending order
RECURSIVE SeqOfSet(_)
SeqOfSet(S) == IF S = {} THEN <<>> ELSE <<Min(S)>> \o SeqOfSet(S \ {Min(S)})

\* the process tables: up to MaxProcs of the sample processes, in the order
\* of the samples, the k-th of a table with pid 100 * k
ProcTables ==
  {[k \in 1..Cardinality(S) |-> ProcCmds[SeqOfSet(S)[k]]] :
     S \in {T \in SUBSET (1..Len(ProcCmds)) : Cardinality(T) <= MaxProcs}}

PidChunk(k) == ToStr(100 * k)

\* the process name the Primary Finder filters by
PROCESS_NAME == "language_server"

\* rows of the table a filter keeps, as indices
Kept(table, needle) == {k \in 1..Len(table) : Includes(table[k], needle)}


\* output of `ps -A -ww -o pid,ppid,args | grep ...` as lines
PsOutput(table, needle) ==
  LET ks == SeqOfSet(Kept(table, needle))
  IN [i \in 1..Len(ks) |-> PsLine(PidChunk(ks[i]), "1", table[ks[i]])]

\* output of the PowerShell listing: '[]' when nothing matches; otherwise
\* @($p) | Select-Object ... | ConvertTo-Json -Compress, which prints the bare
\* object for one match (the pipeline unrolls the array) and an array for more
WinOutput(table, needle) ==
  LET ks == SeqOfSet(Kept(table, needle))
      items == [i \in 1..Len(ks) |-> WinItem(100 * ks[i], 1, table[ks[i]])]
  IN [text |-> <<>>,
      json |-> IF Len(items) = 1 THEN JsonObject(items[1]) ELSE JsonArray(items)]

\* const signature = "csrf_token"
SIGNATURE == "csrf_token"

\* what an enumeration command can print: the filtered table, or text that
\* is no listing at all
GarbageOutput(plat) ==
  IF plat = "win32" THEN [text |-> <<<<"Access", " ", "denied">>>>, json |-> None]
  ELSE <<<<"ps:", " ", "illegal", " ", "option">>>>

AmbientListing(plat, table) ==
  IF plat = "win32" THEN WinOutput(table, SIGNATURE) ELSE PsOutput(table, SIGNATURE)

PrimaryListing(plat, table) ==
  IF plat = "win32" THEN WinOutput(table, PROCESS_NAME)
  ELSE PsOutput(table, PROCESS_NAME)

LsofLine(pid, addr, port) ==
  <<"node", " ", pid, " ", "user", " ", "23u", " ", "IPv4", " ", "TCP", " ",
    addr, ":", port, " ", "(LISTEN)", "\n">>
SsLine(pid, addr, port) ==
  <<"LISTEN", " ", "0", " ", "100", " ", addr, ":", port, " ", "0.0.0.0", ":", "*",
    " ", "users:((node,pid=", pid, ",fd=23))", "\n">>
NetstatLinuxLine(pid, addr, port) ==
  <<"tcp", " ", "0", " ", "0", " ", addr, ":", port, " ", "0.0.0.0", ":", "*",
    " ", "LISTEN", " ", pid, "/node", "\n">>
NetstatWinLine(pid, addr, port) ==
  <<" ", "TCP", " ", addr, ":", port, " ", "0.0.0.0", ":", "0", " ",
    "LISTENING", " ", pid, "\n">>

\* what the port-listing command of a tool can print for the process pid
PortOutputs(tool, pid) ==
  LET lsof == {LsofLine(pid, "127.0.0.1", "45000"),
               LsofLine(pid, "*", "45001") \o LsofLine(pid, "127.0.0.1", "45000"),
               LsofLine(pid, "[::1]", "45000") \o LsofLine(pid, "127.0.0.1", "45000")}
      ss == {SsLine(pid, "127.0.0.1", "45000")}
  IN CASE tool = "lsof" -> lsof
       [] tool = "ss" -> ss
       [] tool = "chain" -> ss \cup lsof
       [] tool = "netstat" -> {NetstatLinuxLine(pid, "127.0.0.1", "45000")}
       [] tool = "netstat-ano" ->
            {NetstatWinLine(pid, "127.0.0.1", "45000"),
             NetstatWinLine(pid, "0.0.0.0", "45001") \o NetstatWinLine(pid, "127.0.0.1", "45000"),
             NetstatWinLine(pid, "0.0.0.0", "0") \o NetstatWinLine(pid, "[::1]", "45000")}
       [] tool = "Get-NetTCPConnection" ->
            {<<>>, <<"45000", "\n">>, <<"45001", "\n", "45000", "\n">>,
             <<"0", "\n", "70000", "\n", "45000", "\n">>}

----------------------------------------------------------------------------
(* The discovery calls *)

LOOPBACK == "127.0.0.1"

\* an external effect of the call: kind k is "enum" (host = what the command
\* gave, n = candidates found), "ports" (n = pid), "hostip" or "probe" (n = port)
Ev(k, host, n, token, ok) == [k |-> k, host |-> host, n |-> n, token |-> token, ok |-> ok]

\* the LanguageServerInfo a call returns
Endpoint(port, token) == [port |-> port, csrfToken |-> token]

Wsl == IsWsl(platform, procReadable, procVersion)
HostIp == GetWslHostIp(resolvReadable, resolvConf)

Init ==
  /\ x_in = GoodInput
  /\ x_res = [p \in Paths |-> None]
  /\ platform \in Platforms
  /\ procReadable \in (IF platform = "linux" THEN BOOLEAN ELSE {FALSE})
  /\ procVersion \in (IF procReadable THEN ProcVersions ELSE {<<>>})
  /\ resolvReadable \in (IF platform = "linux" THEN BOOLEAN ELSE {FALSE})
  /\ resolvConf \in (IF resolvReadable THEN ResolvConfs ELSE {<<>>})
  /\ call = "none" /\ pc = "idle" /\ attempts = 0 /\ attempt = 0
  /\ availablePortCommand = "none"
  /\ candidates = <<>> /\ ci = 0 /\ ports = <<>> /\ pi = 0
  /\ result = None /\ escaped = FALSE /\ enums = <<>> /\ log = <<>>
  /\ TIdle /\ FreeWorld /\ NoBackoff

env0 == <<x_in, x_res, platform, procVersion, procReadable, resolvConf, resolvReadable,
          tvars, first>>
env == <<env0, bvars>>

\* The environment held fixed over two calls: world is <<w>>, w recording
\* the answer given to each question asked so far (the enumeration, the port
\* listing of a pid, the probe of an address); a question asked again gets
\* the recorded answer.
NoAnswers == [enum |-> None, ports |-> {}, probe |-> {}]

\* a probe that answers anew each time it is made
ProbeChoicesFree(host, port, token) == BOOLEAN

\* the answers verifyServerGateway(host, port, token) can give
ProbeChoices(host, port, token) ==
  IF world # None /\ \E a \in world[1].probe : a.q = <<host, port, token>>
  THEN {a.ok : a \in {b \in world[1].probe : b.q = <<host, port, token>>}}
  ELSE BOOLEAN

RememberProbe(host, port, token, ok) ==
  IF world = None THEN world
  ELSE Some([world[1] EXCEPT !.probe = @ \cup {[q |-> <<host, port, token>>, ok |-> ok]}])

\* return v from the call
Return(v) ==
  /\ pc' = "done"
  /\ result' = v
  /\ UNCHANGED <<candidates, ci, ports, pi, attempt>>

\* the loop over candidates left at the first candidate that is skipped
NextCandidateGiveUp ==
  IF call = "ambient" THEN Return(None)
  ELSE /\ pc' = "retry"
       /\ UNCHANGED <<candidates, ci, ports, pi, result, attempt>>

\* the loop over candidates moves on; after the last one the ambient call
\* returns null and the Primary Finder ends its attempt
NextCandidate ==
  IF ci < Len(candidates)
  THEN /\ ci' = ci + 1
       /\ pc' = IF call = "ambient" THEN "lookup" ELSE "resolve"
       /\ ports' = NewStore(ports) /\ pi' = 0
       /\ UNCHANGED <<candidates, result, attempt>>
  ELSE IF call = "ambient" THEN Return(None)
  ELSE /\ pc' = "retry"
       /\ UNCHANGED <<candidates, ci, ports, pi, result, attempt>>

\* the loop over ports probing the same port again
NextPortStuck ==
  /\ pc' = "probeLo"
  /\ UNCHANGED <<candidates, ci, ports, pi, result, attempt>>

\* the loop over ports moves on
NextPort ==
  IF pi < Len(ports)
  THEN /\ pi' = pi + 1 /\ pc' = "probeLo"
       /\ UNCHANGED <<candidates, ci, ports, result, attempt>>
  ELSE NextCandidate

\* probeAndEstablish after the loopback probe, with no return on success
AfterLoopbackNoReturn(ok, wsl, ip) ==
  IF wsl /\ ip # None /\ ip[1] # LOOPBACK THEN "bridge"
  ELSE IF ok THEN "return" ELSE "next"

\* probeAndEstablish after the loopback probe, with no isWsl() test
AfterLoopbackNoWslTest(ok, wsl, ip) ==
  IF ok THEN "return"
  ELSE IF ip # None /\ ip[1] # LOOPBACK THEN "bridge"
  ELSE "next"

\* probeAndEstablish after the loopback probe, with no test that the bridge
\* address differs from the loopback address
AfterLoopbackAnyBridge(ok, wsl, ip) ==
  IF ok THEN "return"
  ELSE IF wsl /\ ip # None THEN "bridge"
  ELSE "next"

\* probeAndEstablish after the loopback probe of one port: return the
\* endpoint, probe the bridge address, or go on to the next port
AfterLoopback(ok, wsl, ip) ==
  IF ok THEN "return"
  ELSE IF wsl /\ ip # None /\ ip[1] # LOOPBACK THEN "bridge"
  ELSE "next"

\* getWslHostIp() is called: the loopback probe failed and isWsl()
LooksUpHostIp(ok, wsl) == ~ok /\ wsl

\* await verifyServerGateway("127.0.0.1", port, meta.csrfToken) and what follows
ProbeLoopback(c) ==
  /\ call = c /\ pc = "probeLo"
  /\ \E ok \in ProbeChoices(LOOPBACK, ports[pi], candidates[ci].csrfToken) :
       LET port == ports[pi]
           token == candidates[ci].csrfToken
           next == AfterLoopback(ok, Wsl, HostIp)
           probed == Append(log, Ev("probe", LOOPBACK, port, token, ok))
       IN /\ world' = RememberProbe(LOOPBACK, port, token, ok)
          /\ log' = IF LooksUpHostIp(ok, Wsl)
                    THEN Append(probed, Ev("hostip", "", 0, "", HostIp # None))
                    ELSE probed
          /\ CASE next = "return" -> Return(Some(Endpoint(port, token)))
               [] next = "bridge" ->
                    /\ pc' = "probeWsl"
                    /\ UNCHANGED <<candidates, ci, ports, pi, result, attempt>>
               [] OTHER -> NextPort
  /\ UNCHANGED <<env, call, attempts, availablePortCommand, escaped, enums>>

\* await verifyServerGateway(ip, port, meta.csrfToken) and what follows
ProbeBridge(c) ==
  /\ call = c /\ pc = "probeWsl"
  /\ \E ok \in ProbeChoices(HostIp[1], ports[pi], candidates[ci].csrfToken) :
       LET port == ports[pi]
           token == candidates[ci].csrfToken
       IN /\ world' = RememberProbe(HostIp[1], port, token, ok)
          /\ log' = Append(log, Ev("probe", HostIp[1], port, token, ok))
          /\ IF ok THEN Return(Some(Endpoint(port, token))) ELSE NextPort
  /\ UNCHANGED <<env, call, attempts, availablePortCommand, escaped, enums>>

\* the catch of executeDiscovery: log the error, return null
ExecuteDiscoveryCatch ==
  /\ Return(None)
  /\ escaped' = FALSE

\* new AmbientDiscovery().executeDiscovery() is called
A_Start ==
  /\ call = "none"
  /\ call' = "ambient" /\ pc' = "locate"
  /\ UNCHANGED <<env, attempts, attempt, availablePortCommand, candidates, ci,
                 ports, pi, result, escaped, enums, log, world>>

\* what running an enumeration command can give: the command fails, prints
\* text that is no listing, or lists the processes of a table
EnumOutcomes ==
  {[kind |-> k, table |-> <<>>] : k \in {"fail", "garbage"}} \cup
  {[kind |-> "list", table |-> t] : t \in ProcTables}

\* what running a port-listing command can give
PortOutcomes(tool, pid) ==
  {[ok |-> FALSE, stdout |-> <<>>]} \cup
  {[ok |-> TRUE, stdout |-> o] : o \in PortOutputs(tool, pid)}

\* the answers of the environment, recorded ones when it is held fixed
EnumChoices ==
  IF world # None /\ world[1].enum # None THEN {world[1].enum[1]} ELSE EnumOutcomes

RememberEnum(out) ==
  IF world = None THEN world ELSE Some([world[1] EXCEPT !.enum = Some(out)])

PortChoices(tool, pid) ==
  IF world # None /\ \E a \in world[1].ports : a.q = pid
  THEN {a.out : a \in {b \in world[1].ports : b.q = pid}}
  ELSE PortOutcomes(tool, pid)

RememberPorts(pid, out) ==
  IF world = None THEN world
  ELSE Some([world[1] EXCEPT !.ports = @ \cup {[q |-> pid, out |-> out]}])

\* locateBySignature and the test of its result in executeDiscovery
A_Locate ==
  /\ call = "ambient" /\ pc = "locate"
  /\ \E out \in EnumChoices :
       LET raw == IF out.kind = "garbage" THEN GarbageOutput(platform)
                  ELSE AmbientListing(platform, out.table)
           found == IF out.kind = "fail" THEN <<>> ELSE AmbientParseOutput(platform, raw)
       IN /\ world' = RememberEnum(out)
          /\ log' = <<Ev("enum", out.kind, Len(found), "", out.kind # "fail")>>
          /\ enums' = Append(enums, Len(found))
          /\ IF found = <<>> THEN Return(None)
             ELSE /\ candidates' = found /\ ci' = 1 /\ pc' = "lookup"
                  /\ UNCHANGED <<ports, pi, result, attempt>>
  /\ UNCHANGED <<env, call, attempts, availablePortCommand, escaped>>

\* probeAndEstablish up to its loop: lookupPorts(meta.pid) and the test of
\* its result
A_Lookup ==
  /\ call = "ambient" /\ pc = "lookup"
  /\ LET pid == candidates[ci].pid
         tool == GetPortListCommand(platform, "none")
     IN \E out \in PortChoices(tool, ToStr(pid)) :
          LET r == LookupPorts(platform, out.ok, out.stdout)
              store == IF out.ok THEN Pushed(NewStore(ports), r.ports) ELSE r.ports
          IN /\ world' = RememberPorts(ToStr(pid), out)
             /\ log' = Append(log, Ev("ports", "", pid, "", out.ok))
             /\ IF r.thrown THEN ExecuteDiscoveryCatch
                ELSE /\ escaped' = escaped
                     /\ IF store = <<>> THEN NextCandidate
                        ELSE /\ ports' = store /\ pi' = 1 /\ pc' = "probeLo"
                             /\ UNCHANGED <<candidates, ci, result, attempt>>
  /\ UNCHANGED <<env, call, attempts, availablePortCommand, enums>>

A_ProbeLoopback == pc = "probeLo" /\ ProbeLoopback("ambient")
A_ProbeBridge == pc = "probeWsl" /\ ProbeBridge("ambient")

----------------------------------------------------------------------------
(* Primary Finder: ProcessFinder.detect({attempts, baseDelay}) *)

\* the tools detectAvailablePortCommand can have stored
DetectedTools(plat) == IF plat = "linux" THEN {"none", "lsof", "ss", "netstat"} ELSE {"none"}

\* the output the strategy's getPortListCommand yields
StrategyTool(plat, avail) ==
  IF plat = "win32" THEN "Get-NetTCPConnection" ELSE GetPortListCommand(plat, avail)

StrategyParsePorts(plat, stdout, pid) ==
  IF plat = "win32" THEN WinParseListeningPorts(stdout)
  ELSE UnixParseListeningPorts(plat, stdout, pid)

StrategyParseProcessInfo(plat, raw) ==
  IF plat = "win32" THEN WinParseProcessInfo(raw) ELSE UnixParseProcessInfo(raw)

\* one attempt more than the configured number
RetryAgainOffByOne(k, n) == k <= n

\* another attempt follows the k-th failed one of n
RetryAgain(k, n) == k < n

\* the configured baseDelay, in delay units (one unit is the baseDelay of
\* server.test.ts, 1000 ms)
BaseDelays == {0, 1, 2, 3}

\* the longest wait between two attempts, in delay units
MaxDelay == 4

RECURSIVE Pow2(_)
Pow2(n) == IF n = 0 THEN 1 ELSE 2 * Pow2(n - 1)

\* a delay that grows by baseDelay with each attempt
BackoffLinear(base, k) == IF base * k > MaxDelay THEN MaxDelay ELSE base * k

\* the wait after the k-th failed attempt: baseDelay * 2^(k-1), bounded
Backoff(base, k) ==
  IF base * Pow2(k - 1) > MaxDelay THEN MaxDelay ELSE base * Pow2(k - 1)

\* finder.detect({attempts: n, baseDelay: d}) is called
PrimaryStart(n, d) ==
  /\ call = "none"
  /\ attempts' = n /\ baseDelay' = d
  /\ \E tool \in DetectedTools(platform) : availablePortCommand' = tool
  /\ call' = "primary" /\ pc' = "enumerate" /\ attempt' = 1
  /\ UNCHANGED <<env0, timer, waited, candidates, ci, ports, pi, result, escaped,
                 enums, log, world>>

P_Start ==
  /\ world = None
  /\ \E n \in 1..MaxAttempts : PrimaryStart(n, Min(BaseDelays \ {0}))

\* step 1 and 2: enumerate and filter; a failure or unparseable output is
\* zero candidates
P_Enumerate ==
  /\ call = "primary" /\ pc = "enumerate"
  /\ \E out \in EnumChoices :
       LET raw == IF out.kind = "garbage" THEN GarbageOutput(platform)
                  ELSE PrimaryListing(platform, out.table)
           parsed == StrategyParseProcessInfo(platform, raw)
           found == IF out.kind = "fail" \/ parsed.null THEN <<>> ELSE parsed.items
       IN /\ world' = RememberEnum(out)
          /\ log' = <<Ev("enum", out.kind, Len(found), "", out.kind # "fail")>>
          /\ enums' = Append(enums, Len(found))
          /\ candidates' = found
          /\ IF found = <<>> THEN pc' = "retry" /\ ci' = 0
             ELSE pc' = "resolve" /\ ci' = 1
          /\ ports' = <<>> /\ pi' = 0
  /\ UNCHANGED <<env, call, attempts, attempt, availablePortCommand, result, escaped>>

\* step 3: a known port is the sole candidate port; an unknown one (0) is
\* resolved by the port listing; no ports: the candidate is skipped
P_Resolve ==
  /\ call = "primary" /\ pc = "resolve"
  /\ LET c == candidates[ci]
         tool == StrategyTool(platform, availablePortCommand)
     IN IF c.extensionPort # 0
        THEN /\ ports' = <<c.extensionPort>> /\ pi' = 1 /\ pc' = "probeLo"
             /\ UNCHANGED <<candidates, ci, result, attempt, log, world>>
        ELSE \E out \in PortChoices(tool, ToStr(c.pid)) :
               LET ps == IF out.ok THEN StrategyParsePorts(platform, out.stdout, c.pid)
                         ELSE <<>>
               IN /\ world' = RememberPorts(ToStr(c.pid), out)
                  /\ log' = Append(log, Ev("ports", "", c.pid, "", out.ok))
                  /\ IF ps = <<>> THEN NextCandidate
                     ELSE /\ ports' = ps /\ pi' = 1 /\ pc' = "probeLo"
                          /\ UNCHANGED <<candidates, ci, result, attempt>>
  /\ UNCHANGED <<env, call, attempts, availablePortCommand, escaped, enums>>

\* step 4: verify
P_ProbeLoopback == pc = "probeLo" /\ ProbeLoopback("primary")
P_ProbeBridge == pc = "probeWsl" /\ ProbeBridge("primary")

\* step 5 and 6: wait and repeat, or return null after the last attempt
P_Retry ==
  /\ call = "primary" /\ pc = "retry"
  /\ IF RetryAgain(attempt, attempts)
     THEN /\ log' = <<>>
          /\ attempt' = attempt + 1
          /\ pc' = "sleep"
          /\ timer' = Backoff(baseDelay, attempt)
          /\ waited' = Append(waited, Backoff(baseDelay, attempt))
          /\ candidates' = <<>> /\ ci' = 0 /\ ports' = <<>> /\ pi' = 0
          /\ UNCHANGED result
     ELSE Return(None) /\ UNCHANGED <<log, timer, waited>>
  /\ UNCHANGED <<env0, baseDelay, call, attempts, availablePortCommand, escaped, enums,
                 world>>

\* one unit of the wait passes
P_Tick ==
  /\ call = "primary" /\ pc = "sleep" /\ timer > 0
  /\ timer' = timer - 1
  /\ UNCHANGED <<env0, baseDelay, waited, call, pc, attempts, attempt,
                 availablePortCommand, candidates, ci, ports, pi, result, escaped,
                 enums, log, world>>

\* the wait is over: the next attempt begins
P_Wake ==
  /\ call = "primary" /\ pc = "sleep" /\ timer = 0
  /\ pc' = "enumerate"
  /\ UNCHANGED <<env, call, attempts, attempt, availablePortCommand, candidates, ci,
                 ports, pi, result, escaped, enums, log, world>>

Next ==
  \/ A_Start
  \/ A_Locate
  \/ A_Lookup
  \/ A_ProbeLoopback
  \/ A_ProbeBridge
  \/ P_Start
  \/ P_Enumerate
  \/ P_Resolve
  \/ P_ProbeLoopback
  \/ P_ProbeBridge
  \/ P_Retry
  \/ P_Tick
  \/ P_Wake

Spec == Init /\ [][Next]_vars

\* the steps of a call in progress: every awaited command and probe completes
\* or times out (a timeout is a failed outcome), and every wait ends
Running ==
  \/ A_Locate \/ A_Lookup \/ A_ProbeLoopback \/ A_ProbeBridge
  \/ P_Enumerate \/ P_Resolve \/ P_ProbeLoopback \/ P_ProbeBridge
  \/ P_Retry \/ P_Tick \/ P_Wake

\* the environments of Init with one WSL host among them
LiveInit ==
  /\ Init
  /\ procReadable = (platform = "linux") /\ resolvReadable = procReadable
  /\ procReadable => Len(procVersion) = 5
  /\ resolvReadable => (resolvConf # <<>> /\ Len(resolvConf[1]) = 1)

SpecLive == LiveInit /\ [][Next]_vars /\ WF_vars(Running)

\* ---------------------------------------------------------------------
\* The Primary Finder's retries in an environment held fixed, with up to
\* MaxRetries attempts and a configured baseDelay.
MaxRetries == 4

BInit ==
  /\ x_in = GoodInput
  /\ x_res = [p \in Paths |-> None]
  /\ platform \in Platforms
  /\ procReadable = (platform = "linux")
  /\ procVersion \in (IF procReadable THEN {v \in ProcVersions : Len(v) = 5} ELSE {<<>>})
  /\ resolvReadable = procReadable
  /\ resolvConf \in (IF resolvReadable
                      THEN {r \in ResolvConfs : r # <<>> /\ Len(r[1]) = 1}
                      ELSE {<<>>})
  /\ call = "none" /\ pc = "idle" /\ attempts = 0 /\ attempt = 0
  /\ availablePortCommand = "none"
  /\ candidates = <<>> /\ ci = 0 /\ ports = <<>> /\ pi = 0
  /\ result = None /\ escaped = FALSE /\ enums = <<>> /\ log = <<>>
  /\ TIdle
  /\ world = Some(NoAnswers) /\ first = None
  /\ NoBackoff

B_Start ==
  /\ world # None
  /\ \E n \in 1..MaxRetries, d \in BaseDelays : PrimaryStart(n, d)

BNext ==
  \/ B_Start
  \/ P_Enumerate
  \/ P_Resolve
  \/ P_ProbeLoopback
  \/ P_ProbeBridge
  \/ P_Retry
  \/ P_Tick
  \/ P_Wake

SpecBackoff == BInit /\ [][BNext]_vars


----------------------------------------------------------------------------
(* The port-tool cache of one UnixStrategy instance (specification SpecTools) *)

MaxDetectCalls == 2

\* const commands = ["lsof", "ss", "netstat"]
Commands == <<"lsof", "ss", "netstat">>
PortTools == {Commands[k] : k \in 1..Len(Commands)}

\* the tools a port-listing command runs, in the order the shell tries them:
\* the chain is `ss ... | grep ... || lsof ... | grep ...`
CommandTools(cmd) == IF cmd = "chain" THEN <<"ss", "lsof">> ELSE <<cmd>>

\* the tool whose listing running the command yields when the tools in avail
\* work: the first of the command's tools that works, None when none does
RunCommand(cmd, avail) ==
  LET tools == CommandTools(cmd)
      hits == {k \in 1..Len(tools) : tools[k] \in avail}
  IN IF hits = {} THEN None ELSE Some(tools[Min(hits)])

\* the guard of detectAvailablePortCommand without the portCommandChecked test
DetectReturnsAtOnceDarwinOnly(checked, plat) == plat = "darwin"

\* if (this.portCommandChecked || this.platform === "darwin") return
DetectReturnsAtOnce(checked, plat) == checked \/ plat = "darwin"

\* this.availablePortCommand || undefined
StoredOrUndefined(stored) == stored

TInit ==
  /\ x_in = GoodInput /\ x_res = [p \in Paths |-> None]
  /\ platform \in {"linux", "darwin"}
  /\ procVersion = <<>> /\ procReadable = FALSE
  /\ resolvConf = <<>> /\ resolvReadable = FALSE
  /\ call = "none" /\ pc = "idle" /\ attempts = 0 /\ attempt = 0
  /\ availablePortCommand = "none"
  /\ candidates = <<>> /\ ci = 0 /\ ports = <<>> /\ pi = 0
  /\ result = None /\ escaped = FALSE /\ enums = <<>> /\ log = <<>>
  /\ installed \in SUBSET PortTools
  /\ portCommandChecked = FALSE
  /\ dcall = [c \in 1..MaxDetectCalls |-> [pc |-> "idle", k |-> 0]]
  /\ whichLog = <<>> /\ lastRun = None
  /\ FreeWorld /\ NoBackoff

tkeep == <<x_in, x_res, platform, procVersion, procReadable, resolvConf,
           resolvReadable, call, pc, attempts, attempt, candidates, ci, ports,
           pi, result, escaped, enums, log, world, first, bvars>>

\* detectAvailablePortCommand() is called: up to its first await
T_Detect ==
  \E c \in 1..MaxDetectCalls :
    /\ dcall[c].pc = "idle"
    /\ IF DetectReturnsAtOnce(portCommandChecked, platform)
       THEN /\ dcall' = [dcall EXCEPT ![c] = [pc |-> "done", k |-> 0]]
            /\ UNCHANGED portCommandChecked
       ELSE /\ portCommandChecked' = TRUE
            /\ dcall' = [dcall EXCEPT ![c] = [pc |-> "which", k |-> 1]]
    /\ UNCHANGED <<tkeep, availablePortCommand, installed, whichLog, lastRun>>

\* one turn of the loop: await execAsync(`which ${cmd}`), then store and
\* return, or catch and go on
T_Which ==
  \E c \in 1..MaxDetectCalls :
    /\ dcall[c].pc = "which"
    /\ LET k == dcall[c].k
           cmd == Commands[k]
           found == cmd \in installed
       IN /\ whichLog' = Append(whichLog, [tool |-> cmd, ok |-> found])
          /\ availablePortCommand' = IF found THEN cmd ELSE availablePortCommand
          /\ dcall' = [dcall EXCEPT ![c] =
                         IF found \/ k = Len(Commands) THEN [pc |-> "done", k |-> k]
                         ELSE [pc |-> "which", k |-> k + 1]]
    /\ UNCHANGED <<tkeep, installed, portCommandChecked, lastRun>>

\* UnixStrategy.getPortListCommand(pid) is called and its command is run
T_PortListing ==
  /\ LET cmd == GetPortListCommand(platform, StoredOrUndefined(availablePortCommand))
     IN lastRun' = Some([stored |-> availablePortCommand, cmd |-> cmd,
                         avail |-> installed, got |-> RunCommand(cmd, installed),
                         returned |-> \E c \in 1..MaxDetectCalls : dcall[c].pc = "done",
                         busy |-> \E c \in 1..MaxDetectCalls : dcall[c].pc = "which"])
  /\ UNCHANGED <<tkeep, availablePortCommand, installed, portCommandChecked,
                 dcall, whichLog>>

\* a tool is installed on, or removed from, the machine
T_EnvChange ==
  /\ \E t \in PortTools :
       installed' = IF t \in installed THEN installed \ {t} ELSE installed \cup {t}
  /\ UNCHANGED <<tkeep, availablePortCommand, portCommandChecked, dcall,
                 whichLog, lastRun>>

TNext ==
  \/ T_Detect
  \/ T_Which
  \/ T_PortListing
  \/ T_EnvChange

SpecTools == TInit /\ [][TNext]_vars

----------------------------------------------------------------------------
(* Two discovery calls against one environment (specification SpecTwice): *)
(* two AmbientDiscovery.executeDiscovery calls, or two ProcessFinder.detect *)
(* calls, each of the latter on a new finder with its own retry budget      *)

\* every platform; a Linux machine is a plain one (no /proc/version to read)
\* or a WSL one with one name server in its resolv.conf
TwInit ==
  /\ x_in = GoodInput
  /\ x_res = [p \in Paths |-> None]
  /\ platform \in Platforms
  /\ procReadable \in (IF platform = "linux" THEN BOOLEAN ELSE {FALSE})
  /\ procVersion \in (IF procReadable THEN {v \in ProcVersions : Len(v) = 5} ELSE {<<>>})
  /\ resolvReadable = procReadable
  /\ resolvConf \in (IF resolvReadable
                      THEN {r \in ResolvConfs : r # <<>> /\ Len(r[1]) = 1}
                      ELSE {<<>>})
  /\ call = "none" /\ pc = "idle" /\ attempts = 0 /\ attempt = 0
  /\ availablePortCommand = "none"
  /\ candidates = <<>> /\ ci = 0 /\ ports = <<>> /\ pi = 0
  /\ result = None /\ escaped = FALSE /\ enums = <<>> /\ log = <<>>
  /\ TIdle
  /\ world = Some(NoAnswers) /\ first = None
  /\ NoBackoff

\* the first call has returned; new AmbientDiscovery().executeDiscovery() is
\* called again
A_Again ==
  /\ call = "ambient" /\ pc = "done"
  /\ world # None /\ first = None
  /\ first' = Some(result)
  /\ pc' = "locate"
  /\ candidates' = <<>> /\ ci' = 0 /\ ports' = NewStore(ports) /\ pi' = 0
  /\ result' = None /\ escaped' = FALSE /\ enums' = <<>> /\ log' = <<>>
  /\ UNCHANGED <<x_in, x_res, platform, procVersion, procReadable, resolvConf,
                 resolvReadable, tvars, bvars, call, attempts, attempt,
                 availablePortCommand, world>>

\* the port tools installed on the machine of the two calls
ToolSets(plat) ==
  IF plat = "linux" THEN {{}, {"lsof"}, {"ss"}, {"netstat"}, {"ss", "netstat"}}
  ELSE {{}}

\* availablePortCommand once detectAvailablePortCommand() has been awaited to
\* its end on a machine with the tools of avail: the stored tool when the
\* call returns at once, else the first of commands that `which` finds, the
\* field left as it was when it finds none
DetectStored(checked, plat, stored, avail) ==
  IF DetectReturnsAtOnce(checked, plat) THEN stored
  ELSE LET hits == {k \in 1..Len(Commands) : Commands[k] \in avail}
       IN IF hits = {} THEN stored ELSE Commands[Min(hits)]

\* new ProcessFinder().detect({attempts: n}) on a machine with the tools of
\* inst: the new strategy's tool cache is empty (portCommandChecked false,
\* availablePortCommand undefined) and is filled before the first listing;
\* the Windows strategy has no tool cache
NewFinder(n, inst) ==
  /\ installed' = inst
  /\ attempts' = n /\ attempt' = 1
  /\ baseDelay' = Min(BaseDelays \ {0}) /\ timer' = 0 /\ waited' = <<>>
  /\ portCommandChecked' = (platform = "linux")
  /\ availablePortCommand' = IF platform = "win32" THEN "none"
                             ELSE DetectStored(FALSE, platform, "none", inst)
  /\ call' = "primary" /\ pc' = "enumerate"
  /\ candidates' = <<>> /\ ci' = 0 /\ ports' = <<>> /\ pi' = 0
  /\ result' = None /\ escaped' = FALSE /\ enums' = <<>> /\ log' = <<>>
  /\ UNCHANGED <<x_in, x_res, platform, procVersion, procReadable, resolvConf,
                 resolvReadable, dcall, whichLog, lastRun, world>>

\* the first detect call, as suiteSetup makes it
P_First ==
  /\ call = "none" /\ world # None /\ first = None
  /\ UNCHANGED first
  /\ \E n \in 1..MaxAttempts, inst \in ToolSets(platform) : NewFinder(n, inst)

\* the first call has returned; a new finder's detect is called with a retry
\* budget of its own, on the same machine
P_Again ==
  /\ call = "primary" /\ pc = "done"
  /\ world # None /\ first = None
  /\ first' = Some(result)
  /\ \E n \in 1..MaxAttempts : NewFinder(n, installed)

TwNext ==
  \/ A_Start
  \/ A_Locate
  \/ A_Lookup
  \/ A_ProbeLoopback
  \/ A_ProbeBridge
  \/ A_Again
  \/ P_First
  \/ P_Enumerate
  \/ P_Resolve
  \/ P_ProbeLoopback
  \/ P_ProbeBridge
  \/ P_Retry
  \/ P_Tick
  \/ P_Wake
  \/ P_Again

SpecTwice == TwInit /\ [][TwNext]_vars

----------------------------------------------------------------------------
(* The port parsers on one raw port-tool output (specification SpecPorts) *)

MaxLines == 2

\* the tools whose output the port-listing commands print
ListingTools == {"lsof", "ss", "netstat", "netstat-ano", "Get-NetTCPConnection"}

\* one line of a tool's output: owning pid, local address, local port
PortLine(tool, pid, addr, port) ==
  CASE tool = "lsof" -> LsofLine(pid, addr, port)
    [] tool = "ss" -> SsLine(pid, addr, port)
    [] tool = "netstat" -> NetstatLinuxLine(pid, addr, port)
    [] tool = "netstat-ano" -> NetstatWinLine(pid, addr, port)
    [] tool = "Get-NetTCPConnection" -> <<port, "\n">>

\* the sockets a listing can name: <<pid, address, port>>
Sockets ==
  { <<"100", "127.0.0.1", "45000">>, <<"100", "[::1]", "45000">>,
    <<"100", "0.0.0.0", "45001">>, <<"100", "127.0.0.1", "0">>,
    <<"100", "127.0.0.1", "70000">>, <<"200", "127.0.0.1", "45001">> }

SocketLists == UNION {[1..n -> Sockets] : n \in 0..MaxLines}

\* the tools whose output reaches a port parser on a platform
PlatformTools(plat) ==
  CASE plat = "win32" -> {"netstat-ano", "Get-NetTCPConnection"}
    [] plat = "darwin" -> {"lsof"}
    [] plat = "linux" -> {"lsof", "ss", "netstat"}

PortInputs ==
  {in \in [plat : Platforms, tool : ListingTools, pid : {100}, socks : SocketLists] :
     in.tool \in PlatformTools(in.plat)}

\* the lines of the raw output, and the raw output made of lines
LinesOf(in) ==
  [k \in 1..Len(in.socks) |->
     PortLine(in.tool, in.socks[k][1], in.socks[k][2], in.socks[k][3])]
RawOf(lines) == Flatten(lines)

\* the orders in which the same lines can appear
LineOrders(lines) ==
  LET n == Len(lines)
  IN {[k \in 1..n |-> lines[f[k]]] :
        f \in {g \in [1..n -> 1..n] : \A a, b \in 1..n : g[a] = g[b] => a = b}}

PortPaths == {"strategy", "ambient"}

\* the parser of a path on a platform applied to a raw output
ParsePorts(path, plat, stdout, pid) ==
  IF path = "strategy" THEN StrategyParsePorts(plat, stdout, pid)
  ELSE LookupPorts(plat, TRUE, stdout).ports

\* the parse of the output, the parse of the same output again, and the
\* parses of the output with its lines in every order
PortParses(path, in) ==
  [ports |-> ParsePorts(path, in.plat, RawOf(LinesOf(in)), in.pid),
   again |-> ParsePorts(path, in.plat, RawOf(LinesOf(in)), in.pid),
   perms |-> {ParsePorts(path, in.plat, RawOf(ls), in.pid) : ls \in LineOrders(LinesOf(in))}]

LInit ==
  /\ x_in \in PortInputs
  /\ x_res = [p \in PortPaths |-> None]
  /\ DIdle

L_Apply(path, plats) ==
  /\ x_in.plat \in plats
  /\ x_res[path] = None
  /\ x_res' = [x_res EXCEPT ![path] = Some(PortParses(path, x_in))]
  /\ UNCHANGED <<x_in, dvars>>

L_WinStrategy == x_in \in PortInputs /\ L_Apply("strategy", {"win32"})
L_DarwinStrategy == x_in \in PortInputs /\ L_Apply("strategy", {"darwin"})
L_LinuxStrategy == x_in \in PortInputs /\ L_Apply("strategy", {"linux"})
L_AmbientWin == x_in \in PortInputs /\ L_Apply("ambient", {"win32"})
L_AmbientUnix == x_in \in PortInputs /\ L_Apply("ambient", {"darwin", "linux"})

LNext ==
  \/ L_WinStrategy
  \/ L_DarwinStrategy
  \/ L_LinuxStrategy
  \/ L_AmbientWin
  \/ L_AmbientUnix

SpecPorts == LInit /\ [][LNext]_vars

----------------------------------------------------------------------------
(* Port resolution for a pid: the port-listing command run on the socket    *)
(* table of the machine, and the parser on its output (specification        *)
(* SpecResolve)                                                             *)

\* the listening TCP sockets of the machine, <<owning pid, address, port>>:
\* two of process 100, one of a process whose pid contains the digits 100,
\* one of another process on port 100, one of another process
TableSockets ==
  { <<"100", "127.0.0.1", "45000">>, <<"100", "0.0.0.0", "45001">>,
    <<"1000", "127.0.0.1", "45001">>, <<"200", "127.0.0.1", "100">>,
    <<"200", "[::1]", "45001">> }

SocketTables == UNION {[1..n -> TableSockets] : n \in 0..MaxLines}

\* the digit chunks in which the digits of pid n occur, and those that
\* begin with them (n is the pid a table is searched for)
DigitsContaining(n) == IF n = "100" THEN {"100", "1000"} ELSE {n}
DigitsStartingWith(n) == IF n = "100" THEN {"100", "1000"} ELSE {n}

\* what a tool prints for the sockets given
ToolOutput(tool, socks) ==
  [k \in 1..Len(socks) |-> PortLine(tool, socks[k][1], socks[k][2], socks[k][3])]

\* grep ${pid} and findstr "${pid}": the digits occur somewhere in the line
HasDigits(line, n) == \E i \in 1..Len(line) : line[i] \in DigitsContaining(n)

\* grep "pid=${pid}," on a line of ss
HasPidEqComma(line, n) ==
  \E i \in 1..Len(line) :
    line[i] = "users:((node,pid=" /\ At(line, i + 1) = n /\ At(line, i + 2) = ",fd=23))"

\* grep "pid=${pid}" on a line of ss
HasPidEq(line, n) ==
  \E i \in 1..Len(line) :
    line[i] = "users:((node,pid=" /\ At(line, i + 1) \in DigitsStartingWith(n)

\* grep -E "^\S+\s+${pid}\s" on a line of lsof
HasPidColumn(line, n) ==
  Len(line) >= 4 /\ line[1] \notin WsChunks /\ line[2] \in WsChunks
    /\ line[3] = n /\ line[4] \in WsChunks

\* lsof -nP -a -iTCP -sTCP:LISTEN -p ${pid} | grep -E "^\S+\s+${pid}\s"
LsofCommand(socks, n) ==
  SelectSeq(ToolOutput("lsof", SelectSeq(socks, LAMBDA r : r[1] = n)),
            LAMBDA l : HasPidColumn(l, n))

\* Get-NetTCPConnection -State Listen -OwningProcess ${pid} | Select-Object
\* -ExpandProperty LocalPort; $p | Sort-Object -Unique
NetTcpCommand(socks, n) ==
  LET own == SelectSeq(socks, LAMBDA r : r[1] = n)
      vals == SeqOfSet({DigitValue(own[k][3]) : k \in 1..Len(own)})
  IN [k \in 1..Len(vals) |-> <<ToStr(vals[k]), "\n">>]

\* the lines that running the port-listing command cmd for pid n prints on a
\* machine with the sockets socks, every tool being installed
CommandOutput(cmd, socks, n) ==
  CASE cmd = "Get-NetTCPConnection" -> NetTcpCommand(socks, n)
    [] cmd = "netstat-ano" ->
         SelectSeq(ToolOutput("netstat-ano", socks),
                   LAMBDA l : HasDigits(l, n) /\ Includes(l, "LISTENING"))
    [] cmd = "lsof" -> LsofCommand(socks, n)
    [] cmd = "ss" -> SelectSeq(ToolOutput("ss", socks), LAMBDA l : HasPidEqComma(l, n))
    [] cmd = "netstat" -> SelectSeq(ToolOutput("netstat", socks), LAMBDA l : HasDigits(l, n))
    [] cmd = "chain" ->
         LET ss == SelectSeq(ToolOutput("ss", socks), LAMBDA l : HasPidEq(l, n))
         IN IF ss # <<>> THEN ss ELSE LsofCommand(socks, n)

\* the tool stored in the availability cache of the strategy ("none": no
\* tool stored), which matters on linux only
StoredTools(plat) == IF plat = "linux" THEN PortTools \cup {"none"} ELSE {"none"}

ResolveInputs ==
  {in \in [plat : Platforms, tool : PortTools \cup {"none"}, pid : {100},
           socks : SocketTables] : in.tool \in StoredTools(in.plat)}

\* port resolution for the pid on a path: the strategy's command and parser,
\* or lookupPorts with the command of detection_utils
ResolvePorts(path, in) ==
  LET n == ToStr(in.pid)
      cmd == IF path = "strategy" THEN StrategyTool(in.plat, in.tool)
             ELSE GetPortListCommand(in.plat, "none")
      out == CommandOutput(cmd, in.socks, n)
  IN [cmd |-> cmd, lines |-> Len(out), ports |-> ParsePorts(path, in.plat, RawOf(out), in.pid)]

RInit ==
  /\ x_in \in ResolveInputs
  /\ x_res = [p \in PortPaths |-> None]
  /\ DIdle

R_Apply(path) ==
  /\ x_res[path] = None
  /\ x_res' = [x_res EXCEPT ![path] = Some(ResolvePorts(path, x_in))]
  /\ UNCHANGED <<x_in, dvars>>

R_Strategy == x_in \in ResolveInputs /\ R_Apply("strategy")
R_Ambient == x_in \in ResolveInputs /\ R_Apply("ambient")

RNext ==
  \/ R_Strategy
  \/ R_Ambient

SpecResolve == RInit /\ [][RNext]_vars

----------------------------------------------------------------------------
(* WindowsStrategy.parseProcessInfo on one enumeration output (specification *)
(* SpecWin)                                                                  *)

MaxItems == 2

\* the command lines of the listed processes: strict signature; signature of
\* another product; no token; strict signature and an argument with a brace
WinCmds ==
  <<ProcCmds[2], ProcCmds[3], ProcCmds[4],
    ProcCmds[2] \o <<" ", "--features", "=", "{", "x", "}">>>>

\* text a shell profile prints before the output of the command
Banners ==
  {<<>>, <<<<"Loading", " ", "profile">>>>, <<<<"[", "profile", "]", " ", "loaded">>>>}

\* the forms of the output: ConvertTo-Json of several matches (or the literal
\* '[]'), of one match, wmic /format:csv, or nothing
WinInputs ==
  {in \in [banner : Banners, kind : {"array", "object", "csv", "none"},
           cmds : UNION {[1..n -> 1..Len(WinCmds)] : n \in 0..MaxItems}] :
     /\ in.kind = "object" => Len(in.cmds) = 1
     /\ in.kind = "none" => in.cmds = <<>>}

WinItemsOf(cmds) == [k \in 1..Len(cmds) |-> WinItem(100 * k, 1, WinCmds[cmds[k]])]
WinRowsOf(cmds) == [k \in 1..Len(cmds) |-> CsvRow(PidChunk(k), "1", WinCmds[cmds[k]])]

WinStdout(banner, kind, cmds) ==
  CASE kind = "array" -> [text |-> banner, json |-> JsonArray(WinItemsOf(cmds))]
    [] kind = "object" -> [text |-> banner, json |-> JsonObject(WinItemsOf(cmds)[1])]
    [] kind = "csv" -> [text |-> banner \o <<CsvHeader>> \o WinRowsOf(cmds), json |-> None]
    [] kind = "none" -> [text |-> banner, json |-> None]

WinPaths == {"output", "payload", "wrapped"}

\* parseProcessInfo of the output as printed, of its payload without the
\* banner, and of the payload with a single object written as an array
WinParse(path, in) ==
  CASE path = "output" -> WinParseProcessInfo(WinStdout(in.banner, in.kind, in.cmds))
    [] path = "payload" -> WinParseProcessInfo(WinStdout(<<>>, in.kind, in.cmds))
    [] path = "wrapped" ->
         WinParseProcessInfo(WinStdout(<<>>, IF in.kind = "object" THEN "array" ELSE in.kind,
                                       in.cmds))

WInit ==
  /\ x_in \in WinInputs
  /\ x_res = [p \in WinPaths |-> None]
  /\ DIdle

W_Apply(path) ==
  /\ x_res[path] = None
  /\ x_res' = [x_res EXCEPT ![path] = Some(WinParse(path, x_in))]
  /\ UNCHANGED <<x_in, dvars>>

W_ParseOutput == x_in \in WinInputs /\ W_Apply("output")
W_ParsePayload == x_in \in WinInputs /\ W_Apply("payload")
W_ParseWrapped == x_in \in WinInputs /\ W_Apply("wrapped")

WNext ==
  \/ W_ParseOutput
  \/ W_ParsePayload
  \/ W_ParseWrapped

SpecWin == WInit /\ [][WNext]_vars

----------------------------------------------------------------------------
(* wsl.ts on one machine (specification SpecWsl) *)

\* contents of the kernel version file
WslVersions ==
  ProcVersions \cup
  {<<>>,
   <<"Linux version 5.10.16.3-", "MICROSOFT", "-standard">>,
   <<"Linux version 6.6.0-custom-", "Wsl", "2 (gcc 13)">>,
   <<"Linux version 6.8.0-generic (Ubuntu)">>}

\* contents of the resolver configuration, as lines
WslResolvConfs ==
  ResolvConfs \cup
  {<<<<"search", " ", "lan">>, <<"options", " ", "edns0">>>>,
   <<<<"nameserver", " ", "10.0.0.1">>, <<"nameserver", " ", "172.20.0.1">>>>,
   <<<<"nameserver", " ", "2001", ":", "db8::1">>, <<"nameserver", " ", "172.20.0.1">>>>,
   <<<<"nameserver", " ", "fe80::1">>, <<"nameserver", " ", "172.20.0.1">>>>,
   <<<<" ", "nameserver", " ", "172.20.0.1">>>>,
   <<<<"nameserver", " ">>, <<"10.0.0.1">>>>,
   <<<<"nameserver">>, <<>>, <<" ", "172.20.0.1">>>>,
   <<<<"nameserver">>, <<"search", " ", "lan">>>>}

WslCalls == {"isWsl", "getWslHostIp"}

SInit ==
  /\ x_in = GoodInput
  /\ x_res = [c \in WslCalls |-> None]
  /\ platform \in Platforms
  /\ procReadable \in BOOLEAN
  /\ procVersion \in (IF procReadable THEN WslVersions ELSE {<<>>})
  /\ resolvReadable \in BOOLEAN
  /\ resolvConf \in (IF resolvReadable THEN WslResolvConfs ELSE {<<>>})
  /\ call = "none" /\ pc = "idle" /\ attempts = 0 /\ attempt = 0
  /\ availablePortCommand = "none"
  /\ candidates = <<>> /\ ci = 0 /\ ports = <<>> /\ pi = 0
  /\ result = None /\ escaped = FALSE /\ enums = <<>> /\ log = <<>>
  /\ TIdle /\ FreeWorld /\ NoBackoff

\* isWsl() is called
S_IsWsl ==
  /\ DOMAIN x_res = WslCalls
  /\ x_res["isWsl"] = None
  /\ x_res' = [x_res EXCEPT !["isWsl"] = Some(IsWsl(platform, procReadable, procVersion))]
  /\ UNCHANGED <<x_in, dvars>>

\* getWslHostIp() is called
S_GetWslHostIp ==
  /\ DOMAIN x_res = WslCalls
  /\ x_res["getWslHostIp"] = None
  /\ x_res' = [x_res EXCEPT !["getWslHostIp"] = Some(GetWslHostIp(resolvReadable, resolvConf))]
  /\ UNCHANGED <<x_in, dvars>>

SNext ==
  \/ S_IsWsl
  \/ S_GetWslHostIp

SpecWsl == SInit /\ [][SNext]_vars

----------------------------------------------------------------------------
(* Properties of the discovery calls (specification Spec) *)

OkProbe(e) == e.k = "probe" /\ e.ok
FailedProbe(e) == e.k = "probe" /\ ~e.ok
HasSuccess == \E k \in 1..Len(log) : OkProbe(log[k])

\* the host a returned record names: { port, csrfToken } names none
ReturnedHost(e) == IF "host" \in DOMAIN e THEN Some(e.host) ELSE None

\* C1: a call that returns an endpoint has earlier had a successful probe of
\* exactly the host, port and token of that endpoint.
C1_ResultWasProbed ==
  result # None =>
    \E k \in 1..Len(log) :
      /\ OkProbe(log[k])
      /\ log[k].n = result[1].port
      /\ log[k].token = result[1].csrfToken
      /\ ReturnedHost(result[1]) = Some(log[k].host)

\* C2: a successful probe is the last external effect of its call: the call
\* is then over, its result is the endpoint probed, and no step (probe, port
\* listing, enumeration, retry) follows.
C2_FirstSuccessEnds ==
  /\ [](\A k \in 1..Len(log) :
          OkProbe(log[k]) =>
            /\ k = Len(log)
            /\ pc = "done"
            /\ result = Some(Endpoint(log[k].n, log[k].token)))
  /\ [][~HasSuccess]_vars

\* a call ended by a success while a candidate and an attempt were left
C2_Witness ==
  /\ call = "primary" /\ pc = "done" /\ HasSuccess
  /\ attempt < attempts /\ ci < Len(candidates)

\* C3: a Primary Finder call with attempts = N never enumerates more than N
\* times, and one all of whose enumerations found zero candidates has
\* enumerated exactly N times when it ends, and ends with null.
C3_ZeroCandidates ==
  call = "primary" =>
    /\ Len(enums) <= attempts
    /\ (pc = "done" /\ \A k \in 1..Len(enums) : enums[k] = 0) =>
         (Len(enums) = attempts /\ result = None)

C3_Witness ==
  /\ call = "primary" /\ pc = "done" /\ attempts > 1
  /\ Len(enums) = attempts /\ \A k \in 1..Len(enums) : enums[k] = 0

\* C4: a probe of an address other than loopback comes right after the host
\* address lookup, which comes right after a failed loopback probe of the same
\* port and token, and both happen only when isWsl(); outside WSL the call
\* looks up no host address and probes loopback only.
C4_LoopbackFirst ==
  /\ \A k \in 1..Len(log) :
       /\ (log[k].k = "probe" /\ log[k].host # LOOPBACK) =>
            /\ Wsl /\ k > 2
            /\ log[k - 1].k = "hostip"
            /\ log[k - 2] = Ev("probe", LOOPBACK, log[k].n, log[k].token, FALSE)
       /\ log[k].k = "hostip" =>
            /\ Wsl /\ k > 1
            /\ FailedProbe(log[k - 1]) /\ log[k - 1].host = LOOPBACK
  /\ ~Wsl => \A k \in 1..Len(log) :
               /\ log[k].k # "hostip"
               /\ log[k].k = "probe" => log[k].host = LOOPBACK

C4_Witness == \E k \in 1..Len(log) : log[k].k = "probe" /\ log[k].host # LOOPBACK

\* C5: no exception reaches the caller; a failed or unparseable enumeration
\* is zero candidates (null, or the end of the attempt); a failed port
\* listing moves the call to the next candidate, or ends it with null after
\* the last one; a failed probe leaves the call without a result and ends it
\* only after the last port of the last candidate.
C5_FailuresAbsorbed ==
  /\ escaped = FALSE
  /\ Len(log) > 0 =>
       LET last == log[Len(log)]
       IN /\ (last.k = "enum" /\ last.host \in {"fail", "garbage"}) =>
               /\ last.n = 0 /\ result = None /\ pc \in {"done", "retry"}
          /\ (last.k = "ports" /\ ~last.ok) =>
               \/ /\ pc \in {"lookup", "resolve", "probeLo"}
                  /\ ci > 1 /\ candidates[ci - 1].pid = last.n
               \/ /\ pc \in {"done", "retry"} /\ result = None
                  /\ ci = Len(candidates) /\ candidates[ci].pid = last.n
          /\ FailedProbe(last) =>
               /\ result = None
               /\ pc = "done" => (ci = Len(candidates) /\ pi = Len(ports))

\* the port listing of a candidate failed and the next candidate is up
C5_Witness ==
  /\ call = "ambient" /\ pc = "lookup" /\ Len(log) > 0
  /\ log[Len(log)].k = "ports" /\ ~log[Len(log)].ok

\* C10: a returned endpoint has port > 0 and a non-empty token, and every
\* candidate of an enumeration has a non-empty token.
C10_PortAndToken ==
  /\ result # None => (result[1].port > 0 /\ result[1].csrfToken # "")
  /\ \A j \in 1..Len(candidates) : candidates[j].csrfToken # ""

C10_Witness == call = "ambient" /\ platform = "win32" /\ result # None

----------------------------------------------------------------------------
(* Properties of signature extraction (specification SpecExtract) *)

Applied(p) == x_res[p] # None
Items(p) == x_res[p][1]

\* the value of an --app_data_dir argument names the product, in any letter case
NamesProduct(val) == \E k \in 1..Len(val) : val[k] \in ProductChunks

\* --extension_server_port=<digits> and --csrf_token=<token>, each value bare or
\* quoted, and an --app_data_dir marker whose value names the product
WellFormedMarkers(in) ==
  /\ in.port.present /\ in.port.sep = "="
  /\ in.token.present /\ in.token.sep = "="
  /\ in.appdir.present /\ NamesProduct(in.appdir.val)

\* C6: from a command line with well-formed port and token markers and an
\* --app_data_dir naming the product, each strict parser yields a candidate
\* with exactly the embedded port and token.
C6_StrictExtractsExact ==
  \A p \in StrictPaths :
    (Applied(p) /\ WellFormedMarkers(x_in)) =>
      \E j \in 1..Len(Items(p)) :
        /\ Items(p)[j].extensionPort = DigitValue(x_in.port.val[1])
        /\ Items(p)[j].csrfToken = Concat(x_in.token.val, 1, Len(x_in.token.val) + 1)

\* C7: from a command line whose --app_data_dir marker is absent, or has a
\* value that does not name the product, no strict parser yields a candidate.
C7_NoProductNoCandidate ==
  \A p \in StrictPaths :
    (Applied(p) /\ (~x_in.appdir.present \/ ~NamesProduct(x_in.appdir.val))) =>
      Items(p) = <<>>

\* bare port and token markers, another product's directory, all strict parsers run
C7_Witness ==
  /\ x_in.port = ArgEq(<<"45000">>) /\ x_in.token = ArgEq(<<"abc123">>)
  /\ x_in.appdir.present /\ ~NamesProduct(x_in.appdir.val)
  /\ \A p \in StrictPaths : Applied(p)

\* C8: from a command line without the token marker no extraction path
\* yields a candidate.
C8_NoTokenNoCandidate ==
  \A p \in Paths : (Applied(p) /\ ~x_in.token.present) => Items(p) = <<>>

\* every other marker present and acceptable, all paths run
C8_Witness ==
  /\ ~x_in.token.present /\ x_in.port.present /\ x_in.ws.present
  /\ x_in.appdir.present /\ x_in.appdir.sep = " " /\ x_in.appdir.val = <<"antigravity">>
  /\ \A p \in Paths : Applied(p)

\* C9: an extraction path yields a candidate only from a command line that
\* has both the port marker and the token marker.
C9_BothMarkersNeeded ==
  \A p \in Paths :
    (Applied(p) /\ Items(p) # <<>>) => (x_in.port.present /\ x_in.token.present)

\* the probes of the log, and the pid of the candidate a probe belongs to:
\* that of the last port listing before it
ProbeIdx == {i \in 1..Len(log) : log[i].k = "probe"}
CandidateOf(i) ==
  LET js == {j \in 1..i : log[j].k = "ports"}
  IN log[CHOOSE j \in js : \A m \in js : m <= j].n

\* the candidate that only the signature search finds: another executable
\* name, another app data dir, port 45001 on its command line
Recovered(c) == c.extensionPort = 45001

\* C18: when the process list holds a process with both markers that the
\* name filter and the strict check exclude, its port listing succeeds and no
\* probe fails, the ambient call returns an endpoint with its token
C18_AmbientRecovers ==
  (/\ call = "ambient" /\ pc = "done"
   /\ \E k \in 1..Len(candidates) :
        /\ Recovered(candidates[k])
        /\ \E i \in 1..Len(log) :
             log[i].k = "ports" /\ log[i].n = candidates[k].pid /\ log[i].ok
   /\ \A i \in ProbeIdx : log[i].ok)
  => (result # None /\ \E k \in 1..Len(candidates) :
                          result[1].csrfToken = candidates[k].csrfToken)

\* C20: one ambient call enumerates the processes exactly once and probes each
\* (candidate, port, host) at most once
C20_OneEnumerationNoRepeat ==
  call = "ambient" =>
    /\ Len(enums) = (IF pc = "locate" THEN 0 ELSE 1)
    /\ Cardinality({i \in 1..Len(log) : log[i].k = "enum"}) = Len(enums)
    /\ \A i, j \in ProbeIdx :
         i < j => <<CandidateOf(i), log[i].n, log[i].host>> #
                  <<CandidateOf(j), log[j].n, log[j].host>>

\* an ambient call that ended without an endpoint after three failed probes,
\* one of them of the bridge address
C20_Witness ==
  /\ call = "ambient" /\ pc = "done" /\ result = None
  /\ Cardinality(ProbeIdx) >= 3
  /\ \E i \in ProbeIdx : log[i].host # LOOPBACK
  /\ Len(enums) = 1

LookedUp == LET ps == SelectSeq(log, LAMBDA e : e.k = "ports")
            IN [k \in 1..Len(ps) |-> ps[k].n]

\* C24: the candidates of an ambient call are tried in enumeration order, a
\* candidate with no ports, a failed port listing or failed probes is passed
\* over, and the call returns nothing only when every candidate was tried
C24_LaterCandidatesTried ==
  (call = "ambient" /\ pc \notin {"idle", "locate"}) =>
    LET m == IF pc = "lookup" THEN ci - 1 ELSE ci
    IN /\ LookedUp = [k \in 1..m |-> candidates[k].pid]
       /\ (pc = "done" /\ result = None) => m = Len(candidates)

\* the port listing of the first candidate failed, the second candidate was
\* probed without success and the call ended
C24_Witness ==
  /\ call = "ambient" /\ pc = "done" /\ result = None
  /\ Len(candidates) >= 2
  /\ \E i \in 1..Len(log) :
       log[i].k = "ports" /\ ~log[i].ok /\ log[i].n = candidates[1].pid
  /\ log[Len(log)].k = "probe"

----------------------------------------------------------------------------
(* Properties of the port-tool cache (specification SpecTools) *)

LastWhich == whichLog[Len(whichLog)]

\* the existence probes follow the order lsof, ss, netstat and only the last
\* one can have succeeded; a tool is stored exactly when that probe succeeded;
\* a listing requested with a stored tool runs that tool alone
ToolCacheShape ==
  /\ Len(whichLog) <= Len(Commands)
  /\ \A i \in 1..Len(whichLog) :
       /\ whichLog[i].tool = Commands[i]
       /\ i < Len(whichLog) => ~whichLog[i].ok
  /\ availablePortCommand # "none" <=> (whichLog # <<>> /\ LastWhich.ok)
  /\ availablePortCommand # "none" => availablePortCommand = LastWhich.tool
  /\ (lastRun # None /\ lastRun[1].stored # "none") =>
       CommandTools(lastRun[1].cmd) = <<lastRun[1].stored>>

\* once a tool is stored, no step changes it or issues an existence probe
ToolCacheFrozen ==
  availablePortCommand # "none" =>
    /\ availablePortCommand' = availablePortCommand
    /\ whichLog' = whichLog

\* C11: on a Linux instance detectAvailablePortCommand probes lsof, ss, netstat
\* in that order, stops at the first that exists and stores it; afterwards
\* every getPortListCommand of the instance uses the stored tool, the stored
\* tool never changes and no further existence probe is issued
C11_ToolMemoised ==
  /\ [](platform = "linux" => ToolCacheShape)
  /\ [][platform = "linux" => ToolCacheFrozen]_vars

\* ss was stored, lsof has been installed since, every detection call has
\* returned and a listing was requested with the stored tool
C11_Witness ==
  /\ platform = "linux"
  /\ availablePortCommand = "ss"
  /\ "lsof" \in installed
  /\ \A c \in 1..MaxDetectCalls : dcall[c].pc = "done"
  /\ lastRun # None /\ lastRun[1].stored = "ss" /\ lastRun[1].avail = installed

\* C12: on Linux, after the detection found no tool, the port-listing command
\* yields a listing whenever one of ss, lsof, netstat works at the moment it runs
C12_ChainTriesEveryTool ==
  (/\ lastRun # None
   /\ platform = "linux"
   /\ Len(whichLog) = Len(Commands) /\ ~LastWhich.ok
   /\ lastRun[1].stored = "none"
   /\ lastRun[1].avail # {})
  => lastRun[1].got # None

----------------------------------------------------------------------------
(* Properties of the port parsers (specification SpecPorts) *)

Parsed(path) == x_res[path] # None
PortsOf(path) == x_res[path][1].ports

StrictlyAscending(seq) == \A i, j \in 1..Len(seq) : i < j => seq[i] < seq[j]

\* C13: the list a Platform Strategy port parser returns is strictly ascending
\* (hence duplicate-free), parsing the same output again gives the same list,
\* and so does parsing the output with its lines in any other order
C13_SortedAndOrderFree ==
  (x_in \in PortInputs /\ Parsed("strategy")) =>
    /\ StrictlyAscending(PortsOf("strategy"))
    /\ x_res["strategy"][1].again = PortsOf("strategy")
    /\ x_res["strategy"][1].perms = {PortsOf("strategy")}

\* an output naming port 45001 before port 45000 twice over was parsed by the
\* strategy to the two ports in ascending order
C13_Witness ==
  /\ x_in \in PortInputs /\ Parsed("strategy")
  /\ Len(x_in.socks) = MaxLines
  /\ x_in.socks[1][3] = "45001"
  /\ \A k \in 2..MaxLines : x_in.socks[k][3] = "45000"
  /\ PortsOf("strategy") = <<45000, 45001>>

\* C14: every port a port parser of the discovery subsystem returns lies in
\* (0, 65535]
C14_PortsInRange ==
  \A path \in PortPaths :
    (x_in \in PortInputs /\ Parsed(path)) =>
      \A k \in 1..Len(PortsOf(path)) : PortsOf(path)[k] > 0 /\ PortsOf(path)[k] <= 65535

\* C19: for one pid and one raw output, the ports AmbientDiscovery resolves
\* are those the Platform Strategy resolves, in the same order
C19_AmbientEqualsStrategy ==
  (x_in \in PortInputs /\ Parsed("strategy") /\ Parsed("ambient")) =>
    PortsOf("ambient") = PortsOf("strategy")

----------------------------------------------------------------------------
(* Properties of WindowsStrategy.parseProcessInfo (specification SpecWin) *)

WinParsed(path) == x_in \in WinInputs /\ x_res[path] # None
WinResult(path) == x_res[path][1]

\* the records of the listed processes that pass signature extraction
WinExpected(cmds) ==
  Flatten([k \in 1..Len(cmds) |-> WinMapItem(WinItemsOf(cmds)[k])])

\* C15: for a JSON listing in which no process matched ('[]', or records none
\* of which passes signature extraction) parseProcessInfo returns an empty
\* list, not the null it returns for unparseable output
C15_NoMatchIsEmptyNotNull ==
  (/\ WinParsed("output")
   /\ x_in.kind = "array" /\ x_in.banner = <<>>
   /\ WinExpected(x_in.cmds) = <<>>)
  => ~WinResult("output").null

\* C16: banner text followed by the JSON payload is parsed to the same records
\* as the payload alone, and a single object as the one-element array of it
C16_BannerSkipped ==
  /\ (WinParsed("output") /\ WinParsed("payload") /\ x_in.kind \in {"array", "object"})
       => WinResult("output") = WinResult("payload")
  /\ (WinParsed("payload") /\ WinParsed("wrapped") /\ x_in.kind = "object")
       => WinResult("payload") = WinResult("wrapped")

\* C17: wmic CSV output yields one record for every row that passes signature
\* extraction, ppid and pid being the last two numeric columns in that order,
\* whatever the command line contains
C17_CsvRowsParsed ==
  (WinParsed("output") /\ x_in.kind = "csv" /\ x_in.banner = <<>>)
  => WinResult("output").items = WinExpected(x_in.cmds)

----------------------------------------------------------------------------
(* Properties of wsl.ts (specification SpecWsl) *)

WslCalled(c) == DOMAIN x_res = WslCalls /\ x_res[c] # None

\* the spellings of the vendor signatures
VendorMarkers == {"microsoft", "Microsoft", "MICROSOFT", "wsl", "WSL", "Wsl"}

\* C21: isWsl is true exactly when the platform is linux, the version file can
\* be read and its text contains microsoft or wsl in some letter case
C21_IsWslExact ==
  WslCalled("isWsl") =>
    (x_res["isWsl"][1] <=>
       /\ platform = "linux"
       /\ procReadable
       /\ \E i \in 1..Len(procVersion) : procVersion[i] \in VendorMarkers)

\* isWsl answered true for a version text that spells the vendor in capitals
C21_Witness ==
  /\ WslCalled("isWsl") /\ x_res["isWsl"][1]
  /\ \E i \in 1..Len(procVersion) : procVersion[i] = "MICROSOFT"

\* the nameserver lines of the resolver configuration
NameserverLines == {i \in 1..Len(resolvConf) : At(resolvConf[i], 1) = "nameserver"}

\* those of them that name an IPv4 address
IPv4Lines == {i \in NameserverLines : At(resolvConf[i], 3) \in IpChunks}

\* C22: getWslHostIp returns null when the file cannot be read or has no
\* nameserver line; what it returns otherwise is an IPv4 address, that of the
\* first nameserver line naming one, and null when no nameserver line names
\* one
C22_FirstNameserverIPv4 ==
  WslCalled("getWslHostIp") =>
    LET ip == x_res["getWslHostIp"][1]
    IN IF ~resolvReadable \/ NameserverLines = {} THEN ip = None
       ELSE /\ ip # None => ip[1] \in IpChunks
            /\ IPv4Lines # {} => ip = Some(At(resolvConf[Min(IPv4Lines)], 3))
            /\ IPv4Lines = {} => ip = None

-----------------------------------------------------------------------------
(* Properties of the Primary Finder's waits (SpecBackoff)                   *)

\* baseDelay * 2^(k-1), capped
CappedDouble(k) ==
  LET d == baseDelay * 2^(k - 1) IN IF d > MaxDelay THEN MaxDelay ELSE d

\* C25: after the k-th failed attempt (1 <= k < attempts) the Primary Finder
\* waits baseDelay * 2^(k-1), capped by the maximum; the delay doubles from
\* one attempt to the next until the cap; and the enumeration of attempt k+1
\* starts only when the whole delay has elapsed.
C25_BackoffDoubles ==
  call = "primary" =>
    /\ Len(waited) = attempt - 1
    /\ Len(waited) < attempts
    /\ \A k \in 1..Len(waited) : waited[k] = CappedDouble(k)
    /\ \A k \in 1..(Len(waited) - 1) :
         waited[k + 1] = IF 2 * waited[k] > MaxDelay THEN MaxDelay ELSE 2 * waited[k]
    /\ pc = "sleep" => /\ Len(enums) = attempt - 1
                       /\ timer <= waited[Len(waited)]
    /\ pc # "sleep" => timer = 0
    /\ Len(enums) = IF pc \in {"sleep", "enumerate"} THEN attempt - 1 ELSE attempt

\* three waits were made, the delay doubled and then reached the cap, and the
\* fourth enumeration is about to start
C25_Witness ==
  /\ call = "primary" /\ pc = "enumerate" /\ timer = 0
  /\ Len(waited) >= 3
  /\ waited[2] = 2 * waited[1] /\ waited[1] > 0
  /\ waited[3] = MaxDelay

-----------------------------------------------------------------------------
(* The ports probed for a candidate (Spec)                                  *)

\* C26: for a candidate whose command line yields a known non-zero port that
\* port is the only port probed for it; other ports are probed only for
\* candidates whose port is 0.
C26_KnownPortSolePort ==
  (call # "none" /\ pc \in {"probeLo", "probeWsl"}) =>
    LET c == candidates[ci]
    IN c.extensionPort # 0 => ports = <<c.extensionPort>>

-----------------------------------------------------------------------------
(* Termination of a discovery call (SpecLive)                               *)

\* the probes made for the candidate in hand of an ambient call
ProbesInHand ==
  LET js == {j \in 1..Len(log) : log[j].k = "ports"}
      last == CHOOSE j \in js : \A m \in js : m <= j
  IN {i \in ProbeIdx : i > last}

\* the work done so far is within one pass (ambient) or `attempts` cycles
WithinBudget ==
  /\ call = "primary" => Len(enums) <= attempts /\ attempt <= attempts
  /\ call = "ambient" =>
       /\ Len(enums) <= 1
       /\ Len(LookedUp) <= Len(candidates)
       /\ pc \in {"probeLo", "probeWsl"} =>
            Cardinality(ProbesInHand) <= 2 * (pi - 1) + (IF pc = "probeWsl" THEN 1 ELSE 0)

\* C27: every discovery call terminates when each command and each probe
\* completes or times out: the Primary Finder after at most `attempts`
\* cycles, executeDiscovery after one pass over its candidates and ports.
C27_Terminates ==
  /\ []WithinBudget
  /\ (call # "none") ~> (pc = "done")

\* an ambient call passed over all its candidates, probing, and returned
C27_Witness ==
  /\ pc = "done" /\ result = None
  /\ call = "ambient" /\ Len(candidates) > 1 /\ Len(LookedUp) = Len(candidates)
  /\ ProbeIdx # {}

-----------------------------------------------------------------------------
(* Overlapping calls of detectAvailablePortCommand (SpecTools)              *)

\* the first tool of the priority order among the tools in avail
FirstAvailable(avail) ==
  Commands[Min({k \in 1..Len(Commands) : Commands[k] \in avail})]

\* every `which` run so far answered as the machine stands
WhichLogCurrent ==
  \A i \in 1..Len(whichLog) : whichLog[i].ok = (whichLog[i].tool \in installed)

\* C28: on a Linux instance, once a call of detectAvailablePortCommand has
\* returned, the command of getPortListCommand uses the first available tool
\* of the priority order whenever a tool exists, also when two calls of
\* detectAvailablePortCommand overlap.
C28_FirstToolAfterDetect ==
  (/\ platform = "linux" /\ lastRun # None
   /\ lastRun[1].returned /\ lastRun[1].avail # {}
   /\ lastRun[1].avail = installed /\ WhichLogCurrent) =>
    lastRun[1].got = Some(FirstAvailable(lastRun[1].avail))

\* the same with no call of detectAvailablePortCommand in progress when the
\* command is built
C28_FirstToolNoOverlap ==
  (lastRun # None /\ ~lastRun[1].busy) => C28_FirstToolAfterDetect

-----------------------------------------------------------------------------
(* Properties of port resolution for a pid (SpecResolve)                    *)

Resolved(path) == x_in \in ResolveInputs /\ x_res[path] # None

\* the ports of the sockets of the table that process pid owns
OwnPorts(socks, pid) ==
  {DigitValue(socks[k][3]) : k \in {j \in 1..Len(socks) : socks[j][1] = ToStr(pid)}}

\* C29: every port that port resolution returns for pid P, on each platform,
\* for each port tool and in AmbientDiscovery.lookupPorts, is the port of a
\* socket of the table owned by P; the line of another process, one whose
\* pid or port contains P's digits, contributes no port.
C29_OnlyOwnPorts ==
  \A path \in PortPaths :
    Resolved(path) =>
      \A k \in 1..Len(PortsOf(path)) : PortsOf(path)[k] \in OwnPorts(x_in.socks, x_in.pid)

\* C30: on Linux, for each tool the availability cache can hold (lsof, ss,
\* netstat), parseListeningPorts on the output of the command built for that
\* tool returns the listening ports of the pid, a non-empty list whenever
\* the process listens on a TCP port.
C30_CachedToolResolves ==
  (Resolved("strategy") /\ x_in.plat = "linux" /\ x_in.tool \in PortTools) =>
    PortsOf("strategy") = SeqOfSet(OwnPorts(x_in.socks, x_in.pid))

====
